---- MODULE Spec2Model ----
(***************************************************************************)
(* Real-time session and message-fanout core of the chat backend:          *)
(* socket authentication, the presence registry (activeUsers), the         *)
(* send-message / delete-message handlers with their suspension points,    *)
(* and the REST routes that write the same collections.                    *)
(***************************************************************************)
EXTENDS Integers, Sequences, FiniteSets, Bags, TLC

(***************************************************************************)
(* Bounds of the model.                                                    *)
(***************************************************************************)
MaxSockets == 2

MaxViews == 1

(***************************************************************************)
(* Identities.  Socket ids are 1..n in handshake order; 0 is "no socket".  *)
(***************************************************************************)
Users == {"A", "B", "C"}

NoUser == "none"

NoSocket == 0

\* io.to(...) targets that are not a single socket id
Broadcast == 0

Groups == {"G"}

NoGroup == "none"

NoMessage == 0

VARIABLES
    sockets,        \* handshakes seen so far: state, handshake token, socket.userId
    activeUsers,    \* the presence registry: userId -> entry or NoEntry
    seen,           \* per connection: the users online by what it was sent
    users,          \* User documents: blockedUsers, blockedBy, friends
    messages,       \* Message documents, _id = index
    chatRooms,      \* ChatRoom documents, _id = index
    groups,         \* Group documents by id, NoGroupDoc when not created
    views,          \* user-viewing-chat handlers, one record per received event
    sends,          \* send-message handlers, one record per received event
    deletes,        \* delete-message handlers and DELETE /message requests
    reacts,         \* add-reaction / remove-reaction handlers and the REST reaction routes
    calls,          \* Call documents, _id = index
    callJobs,       \* call-initiate / answer / decline / end handlers
    typings,        \* typing-start / typing-stop events received
    groupJobs,      \* requests to the member and settings routes of /groups
    reads,          \* mark-message-read handlers, one record per received event
    emits,          \* bag of events emitted by the server
    pushes          \* bag of Notification Service invocations

presenceVars == <<sockets, activeUsers, seen>>

storeVars == <<users, messages, chatRooms, groups, calls>>

handlerVars == <<views, sends, deletes, reacts, callJobs, typings, groupJobs, reads>>

outVars == <<emits, pushes>>

vars == <<sockets, activeUsers, seen, users, messages, chatRooms, groups, calls,
          views, sends, deletes, reacts, callJobs, typings, groupJobs, reads,
          emits, pushes>>

(***************************************************************************)
(* Handshake credentials.  A token is absent, or a JWT with a signature    *)
(* that verifies or not and a userId claim that names a stored user or not.*)
(***************************************************************************)
NoToken == [present |-> FALSE, sig |-> "-", userId |-> NoUser]

Jwt(sig, uid) == [present |-> TRUE, sig |-> sig, userId |-> uid]

GhostId == "ghost"

\* The users that open connections, and the credentials they present.
Clients == {"A", "B"}

Tokens ==
    {NoToken, Jwt("forged", "A"), Jwt("ok", GhostId)} \cup {Jwt("ok", u) : u \in Clients}

\* A mutation of the middleware: the token is decoded without verifying it.
AuthUserUnverified(tok) ==
    IF ~tok.present THEN NoUser
    ELSE IF tok.userId \notin Users THEN NoUser
    ELSE tok.userId

\* io.use: the user the middleware resolves the token to, NoUser when it
\* calls next(new Error(...)).
AuthUser(tok) ==
    IF ~tok.present THEN NoUser
    ELSE IF tok.sig # "ok" THEN NoUser
    ELSE IF tok.userId \notin Users THEN NoUser
    ELSE tok.userId

(***************************************************************************)
(* Presence registry entries.  viewingChat is absent ("unset") until the   *)
(* first user-viewing-chat event of the connection.                        *)
(***************************************************************************)
NoEntry == [socketId |-> NoSocket, viewingChat |-> "unset"]

Entry(sid) == [socketId |-> sid, viewingChat |-> "unset"]

\* One emitted event: its name, the socket whose handler emitted it (0 for a
\* REST route), the target socket id (Broadcast: every other connected
\* socket; NoRoom: a room no socket has joined), the handler invocation and
\* the payload fields the properties read.
NoRoom == -1

Emit(ev, by, to, src, job, info) ==
    SetToBag({[ev |-> ev, by |-> by, to |-> to, src |-> src, job |-> job,
               info |-> info]})

\* How often the server emitted an event matching the given fields.
EmitCount(ev, by, to, src, job, info) ==
    CopiesIn([ev |-> ev, by |-> by, to |-> to, src |-> src, job |-> job,
              info |-> info], emits)


(***************************************************************************)
(* Connection lifecycle (io.use, io.on("connection"), "disconnect").       *)
(***************************************************************************)
NewSocket == [state |-> "connecting", token |-> NoToken, userId |-> NoUser]

Connected(c) == c \in DOMAIN sockets /\ sockets[c].state = "connected"

\* A client opens a connection and presents its handshake credential.
Handshake(tok, maxSockets) ==
    /\ Len(sockets) < maxSockets
    /\ sockets' = Append(sockets, [NewSocket EXCEPT !.token = tok])
    /\ seen' = Append(seen, {})
    /\ UNCHANGED <<activeUsers, storeVars, handlerVars, outVars>>

\* The middleware calls next(new Error("Authentication error ...")).
Reject(c) ==
    /\ c \in DOMAIN sockets
    /\ sockets[c].state = "connecting"
    /\ AuthUser(sockets[c].token) = NoUser
    /\ sockets' = [sockets EXCEPT ![c].state = "rejected"]
    /\ UNCHANGED <<activeUsers, seen, storeVars, handlerVars, outVars>>

\* A mutation of the lookup of the old socket: the old connection is never
\* found, so it is never disconnected.
OldSocketNever(existing) == NoSocket

\* io.sockets.sockets.get(existingConnection.socketId): the socket a prior
\* entry names if it is still connected, NoSocket otherwise.
OldSocket(existing) ==
    IF existing # NoEntry /\ Connected(existing.socketId)
    THEN existing.socketId
    ELSE NoSocket

\* A mutation of the disconnect handler: the entry is left in the registry.
UnregisterKeep(reg, uid) == reg

\* activeUsers.delete(socket.userId) of the disconnect handler.
Unregister(reg, uid) == [reg EXCEPT ![uid] = NoEntry]

\* A mutation of the connection handler: user-online is broadcast twice.
OnlineBroadcastTwice(c) ==
    Emit("user-online", c, Broadcast, "conn", c, "")
        (+) Emit("user-online", c, Broadcast, "conn", c, "")

\* socket.broadcast.emit("user-online", ...) of the connection handler.
OnlineBroadcast(c) == Emit("user-online", c, Broadcast, "conn", c, "")

\* socket.broadcast.emit("user-offline", {..., reason}) of the disconnect handler.
OfflineBroadcast(c, reason) == Emit("user-offline", c, Broadcast, "conn", c, reason)

\* onlineUsersList: the users the registry has an entry for
OnlineUsers(reg) == {u \in Users : reg[u] # NoEntry}

\* A user-online or user-offline broadcast as its receivers read it
PresenceEvent(ev, user) == [ev |-> ev, user |-> user]

\* What a connection takes the online users to be after the broadcasts q,
\* in the order they were sent
RECURSIVE Hear(_, _)
Hear(view, q) ==
    IF q = <<>> THEN view
    ELSE Hear(IF Head(q).ev = "user-online" THEN view \cup {Head(q).user}
              ELSE view \ {Head(q).user},
              Tail(q))

\* A mutation of the connection handler: user-online is broadcast before
\* the old socket is disconnected.
PresenceBroadcastsOnlineFirst(old, u) ==
    <<PresenceEvent("user-online", u)>> \o
        (IF old = NoSocket THEN <<>> ELSE <<PresenceEvent("user-offline", u)>>)

\* The presence broadcasts of the connection handler in the order it sends
\* them: user-offline by the old socket's disconnect handler, if there is an
\* old socket, then user-online.
PresenceBroadcasts(old, u) ==
    (IF old = NoSocket THEN <<>> ELSE <<PresenceEvent("user-offline", u)>>)
        \o <<PresenceEvent("user-online", u)>>

\* What the connections of a state with no handler in progress have been
\* sent: each connected one the users of the registry.
SeenAtRest ==
    [c \in DOMAIN sockets |->
        IF sockets[c].state = "connected" THEN OnlineUsers(activeUsers) ELSE {}]

\* The middleware resolves the user and the connection handler runs:
\* oldSocket.disconnect(true) runs the old socket's disconnect handler
\* synchronously, then the new entry is set and the broadcasts go out.
Connection(c) ==
    /\ c \in DOMAIN sockets
    /\ sockets[c].state = "connecting"
    /\ AuthUser(sockets[c].token) # NoUser
    /\ LET u == AuthUser(sockets[c].token)
           old == OldSocket(activeUsers[u])
           closed == IF old = NoSocket THEN activeUsers
                     ELSE Unregister(activeUsers, sockets[old].userId)
           bye == IF old = NoSocket THEN EmptyBag
                  ELSE OfflineBroadcast(old, "server namespace disconnect")
       IN  /\ sockets' = [d \in DOMAIN sockets |->
                            IF d = c THEN [sockets[d] EXCEPT !.state = "connected", !.userId = u]
                            ELSE IF d = old THEN [sockets[d] EXCEPT !.state = "closed"]
                            ELSE sockets[d]]
           /\ activeUsers' = [closed EXCEPT ![u] = Entry(c)]
           /\ seen' = [o \in DOMAIN sockets |->
                         IF o = c THEN OnlineUsers([closed EXCEPT ![u] = Entry(c)])
                         ELSE IF o = old THEN {}
                         ELSE IF Connected(o) THEN Hear(seen[o], PresenceBroadcasts(old, u))
                         ELSE seen[o]]
           /\ emits' = emits (+) bye (+) OnlineBroadcast(c)
                             (+) Emit("online-users", c, c, "conn", c, "")
    /\ UNCHANGED <<storeVars, handlerVars, pushes>>

\* The transport of a connected socket closes: its disconnect handler runs.
Disconnect(c) ==
    /\ Connected(c)
    /\ sockets' = [sockets EXCEPT ![c].state = "closed"]
    /\ activeUsers' = Unregister(activeUsers, sockets[c].userId)
    /\ seen' = [o \in DOMAIN sockets |->
                  IF o = c THEN {}
                  ELSE IF Connected(o)
                       THEN Hear(seen[o], <<PresenceEvent("user-offline", sockets[c].userId)>>)
                       ELSE seen[o]]
    /\ emits' = emits (+) OfflineBroadcast(c, "transport close")
    /\ UNCHANGED <<storeVars, handlerVars, pushes>>

(***************************************************************************)
(* Stored documents.                                                       *)
(***************************************************************************)
NoUserDoc == [blockedUsers |-> {}, blockedBy |-> {}, friends |-> {}]

\* v is the document's version key, which save() increments with every
\* change of an array.
NoGroupDoc ==
    [exists |-> FALSE, createdBy |-> NoUser, admins |-> <<>>, members |-> <<>>,
     isActive |-> FALSE, lastMessage |-> NoMessage, name |-> <<>>, v |-> 0]

\* Message.updateMany({sender, receiver, isRead: false}, {isRead: true}):
\* the ids it modifies and the collection afterwards.
UnreadFrom(sender, receiver) ==
    {m \in DOMAIN messages :
        /\ messages[m].sender = sender
        /\ messages[m].receiver = receiver
        /\ ~messages[m].isRead}

MarkRead(ids) ==
    [m \in DOMAIN messages |->
        IF m \in ids THEN [messages[m] EXCEPT !.isRead = TRUE] ELSE messages[m]]

(***************************************************************************)
(* socket.on("user-viewing-chat")                                          *)
(***************************************************************************)
\* The synchronous part: the viewing field of the caller's own entry, and
\* the user-viewing-status notification.
ViewStart(c, chatUserId, isViewing, maxViews) ==
    /\ Connected(c)
    /\ Len(views) < maxViews
    /\ LET me == sockets[c].userId
           v == Len(views) + 1
           viewing == isViewing /\ chatUserId # NoUser
           reg == IF activeUsers[me] = NoEntry THEN activeUsers
                  ELSE [activeUsers EXCEPT ![me].viewingChat =
                            IF viewing THEN chatUserId ELSE "null"]
       IN  /\ activeUsers' = reg
           /\ views' = Append(views,
                  [conn |-> c, user |-> me, chatUserId |-> chatUserId,
                   pc |-> IF viewing THEN "mark" ELSE "done", count |-> 0])
           /\ emits' = emits (+)
                  (IF ~viewing
                   THEN Emit("user-viewing-status", c, Broadcast, "view", v, "false")
                   ELSE IF reg[chatUserId] = NoEntry THEN EmptyBag
                   ELSE Emit("user-viewing-status", c, reg[chatUserId].socketId,
                             "view", v, "true"))
    /\ UNCHANGED <<sockets, seen, storeVars, sends, deletes, reacts, callJobs, typings, groupJobs, reads, pushes>>

\* The updateMany resolves: the counterpart's unread messages become read and
\* the counterpart, if present, is told how many.
ViewMark(v) ==
    /\ v \in DOMAIN views
    /\ views[v].pc = "mark"
    /\ LET me == views[v].user
           other == views[v].chatUserId
           ids == UnreadFrom(other, me)
           n == Cardinality(ids)
       IN  /\ messages' = MarkRead(ids)
           /\ views' = [views EXCEPT ![v].pc = "done", ![v].count = n]
           /\ emits' = emits (+)
                  (IF n > 0 /\ activeUsers[other] # NoEntry
                   THEN Emit("messages-marked-read", views[v].conn,
                             activeUsers[other].socketId, "view", v, ToString(n))
                   ELSE EmptyBag)
    /\ UNCHANGED <<presenceVars, users, calls, chatRooms, groups, sends, deletes, reacts, callJobs, typings, groupJobs, reads, pushes>>

(***************************************************************************)
(* Message text.  A client's text is a sequence of characters; a literal of *)
(* the server that is only ever compared is kept in one piece.             *)
(***************************************************************************)
Empty == <<>>

Hi == <<"h", "i">>

Padded == <<" ", "h", "i", " ">>

PushBodyLimit == 100

Long == [i \in 1..(PushBodyLimit + 1) |-> "x"]

NewMessageText == <<"N", "e", "w", " ", "m", "e", "s", "s", "a", "g", "e">>

Ellipsis == <<".", ".", ".">>

RECURSIVE TrimLeft(_)
TrimLeft(t) == IF t # <<>> /\ Head(t) = " " THEN TrimLeft(Tail(t)) ELSE t

RECURSIVE TrimRight(_)
TrimRight(t) ==
    IF t # <<>> /\ t[Len(t)] = " " THEN TrimRight(SubSeq(t, 1, Len(t) - 1)) ELSE t

\* content ? content.trim() : ""
Trim(t) == TrimRight(TrimLeft(t))

\* message.content || 'New message'
OrNewMessage(t) == IF t = Empty THEN NewMessageText ELSE t

\* A mutation of the push payload: the body is the text, however long.
PushBodyWhole(t) == t

\* sendMessageNotification: the payload body is the text cut to
\* PushBodyLimit characters, with "..." appended when it was longer.
PushBody(t) ==
    IF Len(t) > PushBodyLimit THEN SubSeq(t, 1, PushBodyLimit) \o Ellipsis ELSE t

\* user.name
Name(u) == <<u>>

\* `${socket.user.name}: ${message.content || 'New message'}`
GroupPushBody(u, t) == Name(u) \o <<":", " ">> \o OrNewMessage(t)

\* One call of notificationService.sendNotificationToUser(user, payload),
\* with the handler that made it and payload.title / body / data.type.
Push(src, job, user, kind, title, body) ==
    SetToBag({[src |-> src, job |-> job, user |-> user, kind |-> kind,
               title |-> title, body |-> body]})

(***************************************************************************)
(* Message documents.                                                      *)
(***************************************************************************)
MessageTypes == {"text", "image", "video", "file", "system", "deleted"}

NoRoomDoc == 0

DeletedText == <<"This message was deleted">>

\* new Message({sender, receiver | group, content, messageType}) with the
\* schema defaults.
NewMessage(sender, receiver, group, content, type) ==
    [sender |-> sender, receiver |-> receiver, group |-> group,
     content |-> content, messageType |-> type, isRead |-> FALSE,
     isDeleted |-> FALSE, deletedBy |-> NoUser, chatRoom |-> NoRoomDoc,
     reactions |-> <<>>, v |-> 0]

\* The schema's validators, run by save(): sender is required, receiver is
\* required when group is unset and group when receiver is unset, and
\* messageType is one of the enum.
ValidMessage(doc) ==
    /\ doc.sender # NoUser
    /\ (doc.group = NoGroup => doc.receiver # NoUser)
    /\ (doc.receiver = NoUser => doc.group # NoGroup)
    /\ doc.messageType \in MessageTypes

\* countDocuments({receiver, isRead: false}) of GET /messages/unread-count
UnreadCount(u) ==
    Cardinality({m \in DOMAIN messages :
                    messages[m].receiver = u /\ ~messages[m].isRead})

(***************************************************************************)
(* Chat rooms.                                                             *)
(***************************************************************************)
\* new ChatRoom({participants, lastMessage, ...}) with the schema defaults.
NewRoom(a, b, last) ==
    [participants |-> <<a, b>>, lastMessage |-> last, deletedFor |-> {},
     roomType |-> "private"]

InRoom(r, u) == \E i \in DOMAIN chatRooms[r].participants :
                    chatRooms[r].participants[i] = u

\* ChatRoom.findOne({participants: {$all: [a, b]}, roomType: "private"}):
\* the first stored room that matches, NoRoomDoc when none does.
FindRoom(a, b) ==
    LET found == {r \in DOMAIN chatRooms :
                     /\ InRoom(r, a)
                     /\ InRoom(r, b)
                     /\ chatRooms[r].roomType = "private"}
    IN  IF found = {} THEN NoRoomDoc
        ELSE CHOOSE r \in found : \A q \in found : r <= q

(***************************************************************************)
(* socket.on("send-message").  One record of sends per received event; pc  *)
(* is the await the handler is suspended at.                               *)
(***************************************************************************)
\* The value of a missing receiverId
Missing == ""

SendJob(c, receiverId, content, attachment, type, isGroupChat) ==
    [conn |-> c, user |-> sockets[c].userId, receiverId |-> receiverId,
     content |-> content, attachment |-> attachment, messageType |-> type,
     isGroupChat |-> isGroupChat, pc |-> "done", err |-> "",
     senderBlockedReceiver |-> FALSE, msg |-> NoMessage,
     receiverSocket |-> NoSocket, room |-> NoRoomDoc, members |-> <<>>,
     offline |-> <<>>, notifying |-> NoUser, pushFailed |-> {}]

\* socket.emit("message-error", {error}) and return
SendFail(j, text) ==
    /\ sends' = [sends EXCEPT ![j].pc = "done", ![j].err = text]
    /\ emits' = emits (+) Emit("message-error", sends[j].conn, sends[j].conn,
                               "send", j, text)

\* The event arrives: the required-field check, then the first query.
SendStart(c, receiverId, content, attachment, type, isGroupChat, maxSends) ==
    /\ Connected(c)
    /\ Len(sends) < maxSends
    /\ LET j == Len(sends) + 1
           job == SendJob(c, receiverId, content, attachment, type, isGroupChat)
       IN  IF receiverId = Missing \/ (content = Empty /\ ~attachment)
           THEN /\ sends' = Append(sends, [job EXCEPT !.err = "required"])
                /\ emits' = emits (+) Emit("message-error", c, c, "send", j, "required")
           ELSE /\ sends' = Append(sends,
                       [job EXCEPT !.pc = IF isGroupChat THEN "group" ELSE "sender"])
                /\ emits' = emits
    /\ UNCHANGED <<presenceVars, storeVars, views, deletes, reacts, callJobs, typings, groupJobs, reads, pushes>>

\* User.findById(socket.userId) resolves: the sender's block list as read.
SendReadSender(j) ==
    /\ j \in DOMAIN sends
    /\ sends[j].pc = "sender"
    /\ sends' = [sends EXCEPT
                    ![j].pc = "receiver",
                    ![j].senderBlockedReceiver =
                        sends[j].receiverId \in users[sends[j].user].blockedUsers]
    /\ UNCHANGED <<presenceVars, storeVars, views, deletes, reacts, callJobs, typings, groupJobs, reads, outVars>>

\* A mutation of the block check: only the sender's own list is consulted.
BlockedOneWay(senderBlockedReceiver, receiverBlockedSender) == senderBlockedReceiver

\* senderBlockedReceiver || receiverBlockedSender
Blocked(senderBlockedReceiver, receiverBlockedSender) ==
    senderBlockedReceiver \/ receiverBlockedSender

\* User.findById(receiverId) resolves: receiver lookup and the block check.
SendBlockCheck(j) ==
    /\ j \in DOMAIN sends
    /\ sends[j].pc = "receiver"
    /\ IF sends[j].receiverId \notin Users
       THEN SendFail(j, "Receiver not found")
       ELSE IF Blocked(sends[j].senderBlockedReceiver,
                       sends[j].user \in users[sends[j].receiverId].blockedUsers)
       THEN SendFail(j, "blocked")
       ELSE /\ sends' = [sends EXCEPT ![j].pc = "friends"]
            /\ emits' = emits
    /\ UNCHANGED <<presenceVars, storeVars, views, deletes, reacts, callJobs, typings, groupJobs, reads, pushes>>

\* A mutation of the friends check: every receiver counts as a friend.
AreFriendsAlways(sender, receiverId) == TRUE

\* sender.friends && sender.friends.includes(receiverId)
AreFriends(sender, receiverId) == receiverId \in users[sender].friends

\* The second pair of User.findById resolves: the friends check.
SendFriendsCheck(j) ==
    /\ j \in DOMAIN sends
    /\ sends[j].pc = "friends"
    /\ IF ~AreFriends(sends[j].user, sends[j].receiverId)
       THEN SendFail(j, "not friends")
       ELSE /\ sends' = [sends EXCEPT ![j].pc = "save"]
            /\ emits' = emits
    /\ UNCHANGED <<presenceVars, storeVars, views, deletes, reacts, callJobs, typings, groupJobs, reads, pushes>>

\* message.save() resolves or rejects; a rejection lands in the catch block.
SendSave(j) ==
    /\ j \in DOMAIN sends
    /\ sends[j].pc = "save"
    /\ LET doc == NewMessage(sends[j].user, sends[j].receiverId, NoGroup,
                             Trim(sends[j].content), sends[j].messageType)
       IN  IF ~ValidMessage(doc)
           THEN /\ SendFail(j, "Failed to send message")
                /\ messages' = messages
           ELSE /\ messages' = Append(messages, doc)
                /\ sends' = [sends EXCEPT ![j].pc = "lookup",
                                          ![j].msg = Len(messages) + 1]
                /\ emits' = emits
    /\ UNCHANGED <<presenceVars, users, calls, chatRooms, groups, views, deletes, reacts, callJobs, typings, groupJobs, reads, pushes>>

\* A mutation of the test: every receiver with a presence entry counts as
\* viewing the thread.
ReceiverPresent(entry, userId) == entry # NoEntry

\* receiverSocket && receiverSocket.viewingChat === socket.userId
ReceiverViewingThisChat(entry, userId) ==
    entry # NoEntry /\ entry.viewingChat = userId

\* A mutation of the second save: isRead is written whatever it was.
WriteReadFlagAlways(msg, viewing) == [messages EXCEPT ![msg].isRead = viewing]

\* message.isRead = true or false, then message.save(): save() writes only a
\* path whose value differs from the one the handler's copy had, and the
\* copy is unread.
WriteReadFlag(msg, viewing) == IF viewing THEN MarkRead({msg}) ELSE messages

\* After the populates: the registry lookup of the receiver, kept for the
\* fanout, and the isRead write.
SendLookup(j) ==
    /\ j \in DOMAIN sends
    /\ sends[j].pc = "lookup"
    /\ LET entry == activeUsers[sends[j].receiverId]
           viewing == ReceiverViewingThisChat(entry, sends[j].user)
       IN  /\ sends' = [sends EXCEPT ![j].pc = "room",
                                     ![j].receiverSocket = entry.socketId]
           /\ messages' = WriteReadFlag(sends[j].msg, viewing)
    /\ UNCHANGED <<presenceVars, users, calls, chatRooms, groups, views, deletes, reacts, callJobs, typings, groupJobs, reads, outVars>>

\* ChatRoom.findOne resolves.
SendRoomFind(j) ==
    /\ j \in DOMAIN sends
    /\ sends[j].pc = "room"
    /\ sends' = [sends EXCEPT ![j].pc = "roomSave",
                              ![j].room = FindRoom(sends[j].user, sends[j].receiverId)]
    /\ UNCHANGED <<presenceVars, storeVars, views, deletes, reacts, callJobs, typings, groupJobs, reads, outVars>>

\* sendMessageNotification(receiverId, senderName, content || 'New message')
MessageNotification(j, receiverId, sender, content) ==
    Push("send", j, receiverId, "message", Name(sender), PushBody(OrNewMessage(content)))

\* chatRoom.save() resolves: the ack, the echo, and the new-message to the
\* socket found by the earlier lookup or else the push notification.
SendRoomSave(j) ==
    /\ j \in DOMAIN sends
    /\ sends[j].pc = "roomSave"
    /\ LET job == sends[j]
           c == job.conn
       IN  /\ chatRooms' =
                  IF job.room = NoRoomDoc
                  THEN Append(chatRooms, NewRoom(job.user, job.receiverId, job.msg))
                  ELSE [chatRooms EXCEPT
                           ![job.room].lastMessage = job.msg,
                           ![job.room].deletedFor = @ \ {job.user, job.receiverId}]
           /\ sends' = [sends EXCEPT
                           ![j].pc = "done",
                           ![j].notifying = IF job.receiverSocket # NoSocket THEN NoUser
                                            ELSE job.receiverId]
           /\ emits' = emits (+) Emit("message-sent", c, c, "send", j, "")
                             (+) Emit("new-message", c, c, "send", j, "")
                             (+) (IF job.receiverSocket # NoSocket
                                  THEN Emit("new-message", c, job.receiverSocket,
                                            "send", j, "")
                                  ELSE EmptyBag)
           /\ pushes' = pushes (+)
                  (IF job.receiverSocket # NoSocket THEN EmptyBag
                   ELSE MessageNotification(j, job.receiverId, job.user,
                                            Trim(job.content)))
    /\ UNCHANGED <<presenceVars, users, calls, messages, groups, views, deletes, reacts, callJobs, typings, groupJobs, reads>>

(***************************************************************************)
(* socket.on("send-message") with isGroupChat                              *)
(***************************************************************************)
InSeq(x, q) == \E i \in DOMAIN q : q[i] = x

\* Group.findOne({_id: receiverId, members: socket.userId, isActive: true})
\* resolves: the group document as read, or the error.
SendGroupFind(j) ==
    /\ j \in DOMAIN sends
    /\ sends[j].pc = "group"
    /\ LET g == sends[j].receiverId
       IN  IF g \in Groups /\ groups[g].exists /\ groups[g].isActive
                /\ InSeq(sends[j].user, groups[g].members)
           THEN /\ sends' = [sends EXCEPT ![j].pc = "groupSave",
                                          ![j].members = groups[g].members]
                /\ emits' = emits
           ELSE SendFail(j, "Group not found or you are not a member")
    /\ UNCHANGED <<presenceVars, storeVars, views, deletes, reacts, callJobs, typings, groupJobs, reads, pushes>>

\* message.save() of the group message resolves or rejects.
SendGroupSave(j) ==
    /\ j \in DOMAIN sends
    /\ sends[j].pc = "groupSave"
    /\ LET doc == NewMessage(sends[j].user, NoUser, sends[j].receiverId,
                             Trim(sends[j].content), sends[j].messageType)
       IN  IF ~ValidMessage(doc)
           THEN /\ SendFail(j, "Failed to send message")
                /\ messages' = messages
           ELSE /\ messages' = Append(messages, doc)
                /\ sends' = [sends EXCEPT ![j].pc = "groupUpdate",
                                          ![j].msg = Len(messages) + 1]
                /\ emits' = emits
    /\ UNCHANGED <<presenceVars, users, calls, chatRooms, groups, views, deletes, reacts, callJobs, typings, groupJobs, reads, pushes>>

\* group.members.forEach: new-message to the socket of every entry of the
\* member list that has a presence entry.
RECURSIVE MemberEmits(_, _, _)
MemberEmits(members, c, j) ==
    IF members = <<>> THEN EmptyBag
    ELSE (IF activeUsers[Head(members)] # NoEntry
          THEN Emit("new-message", c, activeUsers[Head(members)].socketId, "send", j, "")
          ELSE EmptyBag) (+) MemberEmits(Tail(members), c, j)

\* offlineMembers: the entries of the member list without a presence entry,
\* the sender left out.
OfflineMembers(members, sender) ==
    SelectSeq(members, LAMBDA m : activeUsers[m] = NoEntry /\ m # sender)

\* sendNotificationToUser(memberId, groupNotificationPayload)
GroupNotification(j, memberId) ==
    Push("send", j, memberId, "message", <<sends[j].receiverId>>,
         GroupPushBody(sends[j].user, Trim(sends[j].content)))

\* group.save() resolves: the ack, the fanout over the member list as read,
\* and the first call of the notification loop.
SendGroupFanout(j) ==
    /\ j \in DOMAIN sends
    /\ sends[j].pc = "groupUpdate"
    /\ LET job == sends[j]
           offline == OfflineMembers(job.members, job.user)
       IN  /\ groups' = [groups EXCEPT ![job.receiverId].lastMessage = job.msg]
           /\ emits' = emits (+) Emit("message-sent", job.conn, job.conn, "send", j, "")
                             (+) MemberEmits(job.members, job.conn, j)
           /\ pushes' = pushes (+)
                  (IF offline = <<>> THEN EmptyBag ELSE GroupNotification(j, Head(offline)))
           /\ sends' = [sends EXCEPT
                           ![j].pc = IF Len(offline) > 1 THEN "groupPush" ELSE "done",
                           ![j].offline = IF offline = <<>> THEN <<>> ELSE Tail(offline),
                           ![j].notifying = IF offline = <<>> THEN NoUser ELSE Head(offline)]
    /\ UNCHANGED <<presenceVars, users, calls, messages, chatRooms, views, deletes, reacts, callJobs, typings, groupJobs, reads>>

\* The previous sendNotificationToUser resolves: the next one is called.
SendGroupPush(j) ==
    /\ j \in DOMAIN sends
    /\ sends[j].pc = "groupPush"
    /\ pushes' = pushes (+) GroupNotification(j, Head(sends[j].offline))
    /\ sends' = [sends EXCEPT
                    ![j].pc = IF Len(sends[j].offline) > 1 THEN "groupPush" ELSE "done",
                    ![j].offline = Tail(sends[j].offline),
                    ![j].notifying = Head(sends[j].offline)]
    /\ UNCHANGED <<presenceVars, storeVars, views, deletes, reacts, callJobs, typings, groupJobs, reads, emits>>

\* A mutation of the notification service: the rejection of the provider
\* reaches the handler, whose catch around the loop ends the notifications.
NotificationRejectedAborts(job) ==
    [job EXCEPT !.pushFailed = @ \cup {job.notifying}, !.pc = "done", !.offline = <<>>]

\* webpush.sendNotification rejects: sendNotificationToUser catches the
\* error and resolves with success: false, which the handler does not read.
NotificationRejected(job) == [job EXCEPT !.pushFailed = @ \cup {job.notifying}]

\* The push provider fails the notification the handler is waiting for.
PushFailed(j) ==
    /\ j \in DOMAIN sends
    /\ sends[j].notifying # NoUser
    /\ sends[j].notifying \notin sends[j].pushFailed
    /\ sends' = [sends EXCEPT ![j] = NotificationRejected(sends[j])]
    /\ UNCHANGED <<presenceVars, storeVars, views, deletes, reacts, callJobs, typings, groupJobs, reads, outVars>>

\* A query, save or populate the handler is waiting for rejects: the catch
\* of the handler answers message-error.
SendPersistFail(j) ==
    /\ j \in DOMAIN sends
    /\ sends[j].pc \in {"sender", "receiver", "friends", "save", "lookup", "room", "roomSave",
                        "group", "groupSave", "groupUpdate"}
    /\ SendFail(j, "Failed to send message")
    /\ UNCHANGED <<presenceVars, storeVars, views, deletes, reacts, callJobs, typings, groupJobs, reads, pushes>>

(***************************************************************************)
(* socket.on("mark-message-read") and the read-marking routes of /messages *)
(***************************************************************************)
\* One mark-message-read event: the connection, its user and the two fields
\* of the payload.
ReadJob(c, messageId, senderId) ==
    [conn |-> c, user |-> sockets[c].userId, messageId |-> messageId,
     senderId |-> senderId, pc |-> "done"]

\* The event arrives: without messageId or senderId the handler returns.
MarkMessageRead(c, messageId, senderId, maxReads) ==
    /\ Connected(c)
    /\ Len(reads) < maxReads
    /\ reads' = Append(reads,
           [ReadJob(c, messageId, senderId) EXCEPT
               !.pc = IF messageId = NoMessage \/ senderId = Missing
                      THEN "done" ELSE "update"])
    /\ UNCHANGED <<presenceVars, storeVars, views, sends, deletes, reacts, callJobs,
                   typings, groupJobs, outVars>>

\* io.to(senderSocket.socketId).emit("message-read", ...) when the registry
\* has an entry for the senderId of the payload.
ReadReceipt(r) ==
    LET entry == IF reads[r].senderId \in Users THEN activeUsers[reads[r].senderId]
                 ELSE NoEntry
    IN  IF entry = NoEntry THEN EmptyBag
        ELSE Emit("message-read", reads[r].conn, entry.socketId, "read", r, "")

\* Message.findByIdAndUpdate(messageId, {isRead: true}) resolves, with or
\* without a document of that id; then the receipt.
ReadUpdate(r) ==
    /\ r \in DOMAIN reads
    /\ reads[r].pc = "update"
    /\ messages' = MarkRead({reads[r].messageId} \cap DOMAIN messages)
    /\ reads' = [reads EXCEPT ![r].pc = "done"]
    /\ emits' = emits (+) ReadReceipt(r)
    /\ UNCHANGED <<presenceVars, users, calls, chatRooms, groups, views, sends, deletes,
                   reacts, callJobs, typings, groupJobs, pushes>>

\* GET /messages/chat/:userId and PUT /messages/mark-read/:userId: the
\* updateMany over the unread messages from the other user; neither route
\* emits anything.
RestMarkRead(user, otherUserId) ==
    /\ messages' = MarkRead(UnreadFrom(otherUserId, user))
    /\ UNCHANGED <<presenceVars, users, calls, chatRooms, groups, handlerVars, outVars>>

(***************************************************************************)
(* /groups routes                                                          *)
(***************************************************************************)
\* validMembers / newMembers: the ids of stored users, in request order.
ValidMembers(memberIds) == SelectSeq(memberIds, LAMBDA m : m \in Users)

\* POST /groups/create: the creator followed by the valid member ids; the
\* request names the group "hi".
GroupCreate(creator, g, memberIds) ==
    /\ ~groups[g].exists
    /\ groups' = [groups EXCEPT ![g] =
                     [exists |-> TRUE, createdBy |-> creator, admins |-> <<creator>>,
                      members |-> <<creator>> \o ValidMembers(memberIds),
                      isActive |-> TRUE, lastMessage |-> NoMessage, name |-> Trim(Hi),
                      v |-> 0]]
    /\ UNCHANGED <<presenceVars, users, calls, messages, chatRooms, handlerVars, outVars>>

\* A mutation of the query: every member of the group is found.
CanManageAsMember(user, g) ==
    /\ groups[g].exists
    /\ groups[g].isActive
    /\ InSeq(user, groups[g].members)

\* Group.findOne({_id: groupId, $or: [{createdBy: req.userId},
\* {admins: req.userId}], isActive: true}) finds the group.
CanManage(user, g) ==
    /\ groups[g].exists
    /\ groups[g].isActive
    /\ user = groups[g].createdBy \/ InSeq(user, groups[g].admins)

\* The valid ids of the request that are not on the member list yet
NewMembers(g, memberIds) ==
    SelectSeq(ValidMembers(memberIds), LAMBDA m : ~InSeq(m, groups[g].members))

\* group.members.push(...newMembers), the system message and lastMessage
AddMembersWrite(user, g, memberIds) ==
    /\ messages' = Append(messages,
           NewMessage(user, NoUser, g, <<"Added ">> \o NewMembers(g, memberIds), "system"))
    /\ groups' = [groups EXCEPT ![g].members = @ \o NewMembers(g, memberIds),
                                ![g].lastMessage = Len(messages) + 1,
                                ![g].v = @ + 1]

\* POST /groups/:groupId/members: the valid ids not yet on the member list
\* are pushed, and a system message of the group records it.
GroupAddMembers(user, g, memberIds) ==
    /\ CanManage(user, g)
    /\ NewMembers(g, memberIds) # <<>>
    /\ AddMembersWrite(user, g, memberIds)
    /\ UNCHANGED <<presenceVars, users, calls, chatRooms, handlerVars, outVars>>

\* group.members.filter((id) => id.toString() !== memberId)
Without(q, x) == SelectSeq(q, LAMBDA m : m # x)

\* The two filters, the system message and lastMessage
RemoveMemberWrite(user, g, memberId) ==
    /\ messages' = Append(messages,
           NewMessage(user, NoUser, g, <<"Removed ", memberId>>, "system"))
    /\ groups' = [groups EXCEPT ![g].members = Without(@, memberId),
                                ![g].admins = Without(@, memberId),
                                ![g].lastMessage = Len(messages) + 1,
                                ![g].v = @ + 1]

\* DELETE /groups/:groupId/members/:memberId
GroupRemoveMember(user, g, memberId) ==
    /\ CanManage(user, g)
    /\ InSeq(memberId, groups[g].members)
    /\ RemoveMemberWrite(user, g, memberId)
    /\ UNCHANGED <<presenceVars, users, calls, chatRooms, handlerVars, outVars>>

\* POST /groups/:groupId/leave
GroupLeave(user, g) ==
    /\ groups[g].exists
    /\ groups[g].isActive
    /\ InSeq(user, groups[g].members)
    /\ user # groups[g].createdBy
    /\ messages' = Append(messages,
           NewMessage(user, NoUser, g, <<user, " left">>, "system"))
    /\ groups' = [groups EXCEPT ![g].members = Without(@, user),
                                ![g].admins = Without(@, user),
                                ![g].lastMessage = Len(messages) + 1,
                                ![g].v = @ + 1]
    /\ UNCHANGED <<presenceVars, users, calls, chatRooms, handlerVars, outVars>>

\* PUT /groups/:groupId/settings with a name
GroupSettings(user, g, name) ==
    /\ CanManage(user, g)
    /\ groups' = [groups EXCEPT ![g].name = Trim(name)]
    /\ UNCHANGED <<presenceVars, users, calls, messages, chatRooms, handlerVars, outVars>>

\* DELETE /groups/:groupId: the creator deactivates the group.
GroupDelete(user, g) ==
    /\ groups[g].exists
    /\ groups[g].isActive
    /\ user = groups[g].createdBy
    /\ groups' = [groups EXCEPT ![g].isActive = FALSE]
    /\ UNCHANGED <<presenceVars, users, calls, messages, chatRooms, handlerVars, outVars>>

\* One request to POST /:groupId/members ("add"), DELETE
\* /:groupId/members/:memberId ("remove") or PUT /:groupId/settings
\* ("settings") with the status of its answer.
GroupJob(op, user, g, status) == [op |-> op, user |-> user, group |-> g, status |-> status]

\* The status the route answers with
GroupStatus(op, user, g, memberIds, memberId) ==
    IF op = "add" /\ memberIds = <<>> THEN 400
    ELSE IF ~CanManage(user, g) THEN 404
    ELSE IF op = "add" /\ NewMembers(g, memberIds) = <<>> THEN 400
    ELSE IF op = "remove" /\ ~InSeq(memberId, groups[g].members) THEN 400
    ELSE 200

\* A request to one of the three routes is served.
GroupRequest(op, user, g, memberIds, memberId, name, maxGroupJobs) ==
    /\ op \in {"add", "remove", "settings"}
    /\ Len(groupJobs) < maxGroupJobs
    /\ LET status == GroupStatus(op, user, g, memberIds, memberId)
       IN  /\ groupJobs' = Append(groupJobs, GroupJob(op, user, g, status))
           /\ IF status # 200 THEN UNCHANGED <<messages, groups>>
              ELSE IF op = "add" THEN AddMembersWrite(user, g, memberIds)
              ELSE IF op = "remove" THEN RemoveMemberWrite(user, g, memberId)
              ELSE /\ groups' = [groups EXCEPT ![g].name = Trim(name)]
                   /\ messages' = messages
    /\ UNCHANGED <<presenceVars, users, calls, chatRooms, views, sends, deletes, reacts,
                   callJobs, typings, reads, outVars>>

(***************************************************************************)
(* The member and settings routes of /groups await by await: several       *)
(* requests are in progress at once, each on the copy of the group         *)
(* document its findOne returned.  save() sends $push for the pushed       *)
(* member ids; for a member or admin list that was assigned it sends $set, *)
(* names the version key of the copy, and rejects with a VersionError when *)
(* the stored document has another version.                                *)
(***************************************************************************)
GroupCall(op, user, g, memberIds, memberId) ==
    [op |-> op, user |-> user, group |-> g, memberIds |-> memberIds,
     memberId |-> memberId, pc |-> "done", status |-> 0, members |-> <<>>,
     admins |-> <<>>, readV |-> 0, new |-> <<>>, msg |-> NoMessage]

\* The request arrives; POST /:groupId/members answers 400 to an empty id
\* list before it reads the group.
GroupRouteStart(op, user, g, memberIds, memberId, maxGroupJobs) ==
    /\ op \in {"add", "remove", "leave", "settings"}
    /\ Len(groupJobs) < maxGroupJobs
    /\ groupJobs' = Append(groupJobs,
           IF op = "add" /\ memberIds = <<>>
           THEN [GroupCall(op, user, g, memberIds, memberId) EXCEPT !.status = 400]
           ELSE [GroupCall(op, user, g, memberIds, memberId) EXCEPT !.pc = "find"])
    /\ UNCHANGED <<presenceVars, storeVars, views, sends, deletes, reacts, callJobs,
                   typings, reads, outVars>>

\* The query of the route finds the group: creator or admin of an active
\* group, and for leave a member of an active group.
GroupFound(op, user, g) ==
    IF op = "leave"
    THEN groups[g].exists /\ groups[g].isActive /\ InSeq(user, groups[g].members)
    ELSE CanManage(user, g)

\* The status the route answers with after the query, 0 when it goes on
GroupRefusal(job) ==
    IF ~GroupFound(job.op, job.user, job.group) THEN 404
    ELSE IF job.op = "add" /\ NewMembers(job.group, job.memberIds) = <<>> THEN 400
    ELSE IF job.op = "remove" /\ ~InSeq(job.memberId, groups[job.group].members) THEN 400
    ELSE IF job.op = "leave" /\ job.user = groups[job.group].createdBy THEN 400
    ELSE 0

\* Group.findOne resolves: the route keeps its copy of the document and
\* runs its checks on it.
GroupRouteFind(j) ==
    /\ j \in DOMAIN groupJobs
    /\ groupJobs[j].pc = "find"
    /\ LET job == groupJobs[j]
           status == GroupRefusal(job)
       IN  groupJobs' = [groupJobs EXCEPT ![j] =
               IF status # 0 THEN [job EXCEPT !.pc = "done", !.status = status]
               ELSE [job EXCEPT !.pc = "save",
                                !.members = groups[job.group].members,
                                !.admins = groups[job.group].admins,
                                !.readV = groups[job.group].v,
                                !.new = IF job.op = "add"
                                        THEN NewMembers(job.group, job.memberIds)
                                        ELSE <<>>]]
    /\ UNCHANGED <<presenceVars, storeVars, views, sends, deletes, reacts, callJobs,
                   typings, reads, outVars>>

\* $push of the new member ids on the stored member list
PushMembers(stored, new) == stored \o new

\* The user a remove or leave request takes off the lists
Leaving(job) == IF job.op = "leave" THEN job.user ELSE job.memberId

\* The first group.save() of the route resolves or rejects.
GroupRouteSave(j) ==
    /\ j \in DOMAIN groupJobs
    /\ groupJobs[j].pc = "save"
    /\ LET job == groupJobs[j]
           g == job.group
       IN  CASE job.op = "add" ->
                    /\ groups' = [groups EXCEPT
                                     ![g].members = PushMembers(@, job.new),
                                     ![g].v = @ + 1]
                    /\ groupJobs' = [groupJobs EXCEPT ![j].pc = "message"]
             [] job.op = "settings" ->
                    \* the request names the group " hi "
                    /\ groups' = [groups EXCEPT ![g].name = Trim(Padded)]
                    /\ groupJobs' = [groupJobs EXCEPT ![j].pc = "done", ![j].status = 200]
             [] OTHER ->
                    IF groups[g].v # job.readV
                    THEN /\ groups' = groups
                         /\ groupJobs' = [groupJobs EXCEPT ![j].pc = "done",
                                                           ![j].status = 500]
                    ELSE /\ groups' = [groups EXCEPT
                                          ![g].members = Without(job.members, Leaving(job)),
                                          ![g].admins = Without(job.admins, Leaving(job)),
                                          ![g].v = @ + 1]
                         /\ groupJobs' = [groupJobs EXCEPT ![j].pc = "message"]
    /\ UNCHANGED <<presenceVars, users, messages, chatRooms, calls, views, sends, deletes,
                   reacts, callJobs, typings, reads, outVars>>

\* systemMessage.save() resolves.
GroupRouteMessage(j) ==
    /\ j \in DOMAIN groupJobs
    /\ groupJobs[j].pc = "message"
    /\ LET job == groupJobs[j]
           text == IF job.op = "add" THEN <<"Added ">> \o job.new
                   ELSE IF job.op = "remove" THEN <<"Removed ", job.memberId>>
                   ELSE <<job.user, " left">>
       IN  /\ messages' = Append(messages,
                  NewMessage(job.user, NoUser, job.group, text, "system"))
           /\ groupJobs' = [groupJobs EXCEPT ![j].pc = "last",
                                             ![j].msg = Len(messages) + 1]
    /\ UNCHANGED <<presenceVars, users, chatRooms, groups, calls, views, sends, deletes,
                   reacts, callJobs, typings, reads, outVars>>

\* The second group.save() resolves: lastMessage, and the answer.
GroupRouteLast(j) ==
    /\ j \in DOMAIN groupJobs
    /\ groupJobs[j].pc = "last"
    /\ groups' = [groups EXCEPT ![groupJobs[j].group].lastMessage = groupJobs[j].msg]
    /\ groupJobs' = [groupJobs EXCEPT ![j].pc = "done", ![j].status = 200]
    /\ UNCHANGED <<presenceVars, users, messages, chatRooms, calls, views, sends, deletes,
                   reacts, callJobs, typings, reads, outVars>>

(***************************************************************************)
(* POST /messages/send                                                     *)
(***************************************************************************)
\* A mutation of the route: receiver and group are both taken from the body.
RestTargetBoth(receiverId, groupId) ==
    [receiver |-> IF receiverId # Missing THEN receiverId ELSE NoUser,
     group |-> IF groupId # Missing THEN groupId ELSE NoGroup]

\* if (receiverId) messageData.receiver = receiverId;
\* else messageData.group = groupId
RestTarget(receiverId, groupId) ==
    IF receiverId # Missing
    THEN [receiver |-> receiverId, group |-> NoGroup]
    ELSE [receiver |-> NoUser, group |-> groupId]

\* The request passes the three checks of the route and the message is
\* saved; the route emits nothing.
RestSend(user, receiverId, groupId, content, attachment, type) ==
    /\ receiverId # Missing \/ groupId # Missing
    /\ content # Empty \/ attachment
    /\ type \in {"text", "image", "video", "file", "system", "deleted"}
    /\ LET target == RestTarget(receiverId, groupId)
           doc == NewMessage(user, target.receiver, target.group, Trim(content), type)
       IN  /\ ValidMessage(doc)
           /\ messages' = Append(messages, doc)
    /\ UNCHANGED <<presenceVars, users, calls, chatRooms, groups, handlerVars, outVars>>

(***************************************************************************)
(* POST /users/block and POST /users/unblock                               *)
(***************************************************************************)
\* The system message of a block or unblock, its chat room (found or
\* created), the events for the two user_<id> rooms and the push to the
\* other user.
BlockNotice(cur, userId, verb, title) ==
    LET found == FindRoom(cur, userId)
        room == IF found = NoRoomDoc THEN Len(chatRooms) + 1 ELSE found
        m == Len(messages) + 1
        doc == [NewMessage(cur, userId, NoGroup,
                           Name(cur) \o <<verb>> \o Name(userId), "system")
                    EXCEPT !.chatRoom = room]
        rooms == IF found = NoRoomDoc
                 THEN Append(chatRooms, NewRoom(cur, userId, NoMessage))
                 ELSE chatRooms
    IN  /\ messages' = Append(messages, doc)
        /\ chatRooms' = [rooms EXCEPT ![room].lastMessage = m]
        /\ emits' = emits (+) Emit("new-message", 0, NoRoom, "rest", m, cur)
                          (+) Emit("new-message", 0, NoRoom, "rest", m, userId)
                          (+) Emit("user-" \o verb, 0, NoRoom, "rest", m, userId)
                          (+) Emit("user-block-status-updated", 0, NoRoom, "rest", m, cur)
        /\ pushes' = pushes (+) Push("rest", m, userId, "system", <<title>>,
                                     <<"You have been ", verb, " by ">> \o Name(cur))

Block(cur, userId) ==
    /\ userId # cur
    /\ userId \in Users
    /\ userId \notin users[cur].blockedUsers
    /\ users' = [users EXCEPT ![cur].blockedUsers = @ \cup {userId},
                              ![userId].blockedBy = @ \cup {cur}]
    /\ BlockNotice(cur, userId, "blocked", "User Blocked")
    /\ UNCHANGED <<presenceVars, groups, calls, handlerVars>>

Unblock(cur, userId) ==
    /\ userId \in users[cur].blockedUsers
    /\ users' = [users EXCEPT ![cur].blockedUsers = @ \ {userId},
                              ![userId].blockedBy = @ \ {cur}]
    /\ BlockNotice(cur, userId, "unblocked", "User Unblocked")
    /\ UNCHANGED <<presenceVars, groups, calls, handlerVars>>

(***************************************************************************)
(* socket.on("delete-message") and DELETE /messages/message/:messageId.    *)
(* One record of deletes per request; pc is the await it is suspended at.  *)
(***************************************************************************)
NotFound == [found |-> FALSE, sender |-> NoUser, isDeleted |-> FALSE]

\* Message.findById(messageId): the fields of the document the handler reads
FindById(messageId) ==
    IF messageId \in DOMAIN messages
    THEN [found |-> TRUE, sender |-> messages[messageId].sender,
          isDeleted |-> messages[messageId].isDeleted]
    ELSE NotFound

\* A mutation of the query: the sender is left out of the filter.
FindAnyUndeleted(messageId, userId) ==
    /\ messageId \in DOMAIN messages
    /\ ~messages[messageId].isDeleted

\* Message.findOne({_id: messageId, sender: userId, isDeleted: false})
FindOwnUndeleted(messageId, userId) ==
    /\ messageId \in DOMAIN messages
    /\ messages[messageId].sender = userId
    /\ ~messages[messageId].isDeleted

\* A mutation of the tombstone: the message keeps its type.
TombstoneKeepsType(messageId, userId) ==
    [messages EXCEPT ![messageId].isDeleted = TRUE,
                     ![messageId].deletedBy = userId,
                     ![messageId].content = DeletedText]

\* The five assignments of the tombstone and message.save()
Tombstone(messageId, userId) ==
    [messages EXCEPT ![messageId].isDeleted = TRUE,
                     ![messageId].deletedBy = userId,
                     ![messageId].content = DeletedText,
                     ![messageId].messageType = "deleted"]

DeleteJob(kind, c, userId, messageId) ==
    [kind |-> kind, conn |-> c, user |-> userId, messageId |-> messageId,
     pc |-> "done", messageExists |-> NotFound, err |-> "", ok |-> FALSE]

DeleteFail(d, text) ==
    /\ deletes' = [deletes EXCEPT ![d].pc = "done", ![d].err = text]
    /\ emits' = emits (+)
           (IF deletes[d].kind = "socket"
            THEN Emit("message-error", deletes[d].conn, deletes[d].conn, "delete", d, text)
            ELSE EmptyBag)

\* The delete-message event arrives.
DeleteStart(c, messageId, maxDeletes) ==
    /\ Connected(c)
    /\ Len(deletes) < maxDeletes
    /\ LET d == Len(deletes) + 1
           job == DeleteJob("socket", c, sockets[c].userId, messageId)
       IN  IF messageId = NoMessage
           THEN /\ deletes' = Append(deletes, [job EXCEPT !.err = "Message ID is required"])
                /\ emits' = emits (+) Emit("message-error", c, c, "delete", d,
                                           "Message ID is required")
           ELSE /\ deletes' = Append(deletes, [job EXCEPT !.pc = "exists"])
                /\ emits' = emits
    /\ UNCHANGED <<presenceVars, storeVars, views, sends, reacts, callJobs, typings, groupJobs, reads, pushes>>

\* Message.findById resolves.
DeleteFindById(d) ==
    /\ d \in DOMAIN deletes
    /\ deletes[d].pc = "exists"
    /\ deletes' = [deletes EXCEPT ![d].pc = "find",
                                  ![d].messageExists = FindById(deletes[d].messageId)]
    /\ UNCHANGED <<presenceVars, storeVars, views, sends, reacts, callJobs, typings, groupJobs, reads, outVars>>

\* Message.findOne resolves; when it finds nothing the handler falls back on
\* the document read before, if that one had the requester as sender and
\* was not deleted.
DeleteFindOne(d) ==
    /\ d \in DOMAIN deletes
    /\ deletes[d].pc = "find"
    /\ LET job == deletes[d]
           manual == /\ job.messageExists.found
                     /\ job.messageExists.sender = job.user
                     /\ ~job.messageExists.isDeleted
       IN  IF FindOwnUndeleted(job.messageId, job.user) \/ (job.kind = "socket" /\ manual)
           THEN /\ deletes' = [deletes EXCEPT ![d].pc = "save"]
                /\ emits' = emits
           ELSE DeleteFail(d, "Message not found or unauthorized")
    /\ UNCHANGED <<presenceVars, storeVars, views, sends, reacts, callJobs, typings, groupJobs, reads, pushes>>

\* message.save() resolves: the tombstone is written.  The REST route then
\* answers success and emits nothing.
DeleteSave(d) ==
    /\ d \in DOMAIN deletes
    /\ deletes[d].pc = "save"
    /\ messages' = Tombstone(deletes[d].messageId, deletes[d].user)
    /\ deletes' = [deletes EXCEPT
                      ![d].pc = IF deletes[d].kind = "socket" THEN "emit" ELSE "done",
                      ![d].ok = deletes[d].kind = "rest"]
    /\ UNCHANGED <<presenceVars, users, calls, chatRooms, groups, views, sends, reacts, callJobs, typings, groupJobs, reads, outVars>>

\* message-deleted to every entry of the member list with a presence entry,
\* the requester left out.
RECURSIVE MemberDeleted(_, _, _)
MemberDeleted(members, d, info) ==
    IF members = <<>> THEN EmptyBag
    ELSE (IF activeUsers[Head(members)] # NoEntry /\ Head(members) # deletes[d].user
          THEN Emit("message-deleted", deletes[d].conn,
                    activeUsers[Head(members)].socketId, "delete", d, info)
          ELSE EmptyBag) (+) MemberDeleted(Tail(members), d, info)

\* The populates resolve: message-deleted to the requester and, for a direct
\* message, to the receiver's socket if the registry has one now.
DeleteEmit(d) ==
    /\ d \in DOMAIN deletes
    /\ deletes[d].pc = "emit"
    /\ LET job == deletes[d]
           m == messages[job.messageId]
           info == ToString(job.messageId)
           toGroup == m.group # NoGroup
       IN  /\ emits' = emits (+) Emit("message-deleted", job.conn, job.conn, "delete", d, info)
                  (+) (IF ~toGroup /\ m.receiver \in Users /\ activeUsers[m.receiver] # NoEntry
                       THEN Emit("message-deleted", job.conn,
                                 activeUsers[m.receiver].socketId, "delete", d, info)
                       ELSE EmptyBag)
           /\ deletes' = [deletes EXCEPT ![d].pc = IF toGroup THEN "groupFanout" ELSE "done",
                                         ![d].ok = TRUE]
    /\ UNCHANGED <<presenceVars, storeVars, views, sends, reacts, callJobs, typings, groupJobs, reads, pushes>>

\* Group.findById resolves: the fanout over the member list as it is now.
DeleteGroupFanout(d) ==
    /\ d \in DOMAIN deletes
    /\ deletes[d].pc = "groupFanout"
    /\ LET g == messages[deletes[d].messageId].group
       IN  emits' = emits (+)
               (IF g \in Groups /\ groups[g].exists
                THEN MemberDeleted(groups[g].members, d, ToString(deletes[d].messageId))
                ELSE EmptyBag)
    /\ deletes' = [deletes EXCEPT ![d].pc = "done"]
    /\ UNCHANGED <<presenceVars, storeVars, views, sends, reacts, callJobs, typings, groupJobs, reads, pushes>>

\* A query, save or populate the delete-message handler is waiting for
\* rejects: the catch of the handler answers message-error.
DeletePersistFail(d) ==
    /\ d \in DOMAIN deletes
    /\ deletes[d].kind = "socket"
    /\ deletes[d].pc \in {"exists", "find", "save", "emit", "groupFanout"}
    /\ DeleteFail(d, "Failed to delete message")
    /\ UNCHANGED <<presenceVars, storeVars, views, sends, reacts, callJobs, typings, groupJobs, reads, pushes>>

\* The DELETE request arrives with a verified token.
RestDeleteStart(userId, messageId, maxDeletes) ==
    /\ Len(deletes) < maxDeletes
    /\ deletes' = Append(deletes,
           [DeleteJob("rest", 0, userId, messageId) EXCEPT !.pc = "find"])
    /\ UNCHANGED <<presenceVars, storeVars, views, sends, reacts, callJobs, typings, groupJobs, reads, outVars>>

(***************************************************************************)
(* Reactions.  The socket handlers add-reaction and remove-reaction and    *)
(* the routes POST and DELETE /messages/message/:messageId/reaction read   *)
(* the message, change the reactions of the copy and save it.  save()      *)
(* writes the paths the handler modified: a push is sent as $push and      *)
(* increments the version of the document, a field of an existing element  *)
(* is sent as $set under the version the handler read, a replaced array is *)
(* sent as $set under that version and increments it.  The tombstone sets  *)
(* scalar fields and leaves the version alone.                             *)
(***************************************************************************)
Thumb == "thumb"
Heart == "heart"
GarbledThumb == "thumb read as Latin-1"
GarbledHeart == "heart read as Latin-1"
Bogus == "bogus"
NoReaction == ""

\* validReactions of the socket handler: the emoji themselves
SocketValidReactions == {Thumb, Heart}

\* validReactions of the route: the file holds the emoji as mis-decoded text
RestValidReactions == {GarbledThumb, GarbledHeart}

\* const { reaction = <thumbs up> } = data / req.body
ReactionOrDefault(kind, reaction) ==
    IF reaction # NoReaction THEN reaction
    ELSE IF kind = "socket" THEN Thumb ELSE GarbledThumb

ValidReaction(kind, reaction) ==
    IF kind = "socket" THEN reaction \in SocketValidReactions
    ELSE reaction \in RestValidReactions

\* message.reactions.findIndex(r => r.user === userId); 0 for -1
FindIndex(rs, u) ==
    IF \E i \in DOMAIN rs : rs[i].user = u
    THEN CHOOSE i \in DOMAIN rs : rs[i].user = u /\ \A k \in 1..(i - 1) : rs[k].user # u
    ELSE 0

\* message.reactions.filter(r => r.user !== userId)
FilterOut(rs, u) == SelectSeq(rs, LAMBDA e : e.user # u)

ReactJob(kind, op, c, userId, messageId, reaction) ==
    [kind |-> kind, op |-> op, conn |-> c, user |-> userId, messageId |-> messageId,
     reaction |-> reaction, pc |-> "done", read |-> <<>>, readV |-> 0,
     err |-> "", ok |-> FALSE]

ReactEvent(op) == IF op = "add" THEN "reaction-added" ELSE "reaction-removed"

ReactFail(r, text) ==
    /\ reacts' = [reacts EXCEPT ![r].pc = "done", ![r].err = text]
    /\ emits' = emits (+)
           (IF reacts[r].kind = "socket"
            THEN Emit("message-error", reacts[r].conn, reacts[r].conn, "react", r, text)
            ELSE EmptyBag)

\* The add-reaction or remove-reaction event arrives.
ReactStart(c, op, messageId, reaction, maxReacts) ==
    /\ Connected(c)
    /\ Len(reacts) < maxReacts
    /\ LET r == Len(reacts) + 1
           chosen == IF op = "add" THEN ReactionOrDefault("socket", reaction) ELSE NoReaction
           job == ReactJob("socket", op, c, sockets[c].userId, messageId, chosen)
           refuse(text) ==
               /\ reacts' = Append(reacts, [job EXCEPT !.err = text])
               /\ emits' = emits (+) Emit("message-error", c, c, "react", r, text)
       IN  IF messageId = NoMessage THEN refuse("Message ID is required")
           ELSE IF op = "add" /\ ~ValidReaction("socket", chosen) THEN refuse("Invalid reaction")
           ELSE /\ reacts' = Append(reacts, [job EXCEPT !.pc = "find"])
                /\ emits' = emits
    /\ UNCHANGED <<presenceVars, storeVars, views, sends, deletes, callJobs, typings, groupJobs, reads, pushes>>

\* The POST or DELETE reaction request arrives with a verified token.
RestReactStart(userId, op, messageId, reaction, maxReacts) ==
    /\ Len(reacts) < maxReacts
    /\ LET chosen == IF op = "add" THEN ReactionOrDefault("rest", reaction) ELSE NoReaction
           job == ReactJob("rest", op, 0, userId, messageId, chosen)
       IN  reacts' = Append(reacts,
               IF op = "add" /\ ~ValidReaction("rest", chosen)
               THEN [job EXCEPT !.err = "Invalid reaction"]
               ELSE [job EXCEPT !.pc = "find"])
    /\ UNCHANGED <<presenceVars, storeVars, views, sends, deletes, callJobs, typings, groupJobs, reads, outVars>>

\* Message.findOne({_id: messageId, isDeleted: false}) resolves.
ReactFind(r) ==
    /\ r \in DOMAIN reacts
    /\ reacts[r].pc = "find"
    /\ LET id == reacts[r].messageId
       IN  IF id \in DOMAIN messages /\ ~messages[id].isDeleted
           THEN /\ reacts' = [reacts EXCEPT ![r].pc = "save",
                                            ![r].read = messages[id].reactions,
                                            ![r].readV = messages[id].v]
                /\ emits' = emits
           ELSE ReactFail(r, "Message not found")
    /\ UNCHANGED <<presenceVars, storeVars, views, sends, deletes, callJobs, typings, groupJobs, reads, pushes>>

\* What save() does with the store for the change the handler made to its
\* copy; the store is left alone when the version the update names is gone.
ReactionWrite(job) ==
    LET id == job.messageId
        m == messages[id]
        idx == FindIndex(job.read, job.user)
        entry == [user |-> job.user, reaction |-> job.reaction]
    IN  IF job.op = "add"
        THEN IF idx # 0
             THEN IF m.v = job.readV
                  THEN [messages EXCEPT ![id].reactions[idx].reaction = job.reaction]
                  ELSE messages
             ELSE [messages EXCEPT ![id].reactions = Append(m.reactions, entry),
                                   ![id].v = m.v + 1]
        ELSE IF FilterOut(job.read, job.user) = job.read THEN messages
             ELSE IF m.v = job.readV
                  THEN [messages EXCEPT ![id].reactions = FilterOut(job.read, job.user),
                                        ![id].v = m.v + 1]
                  ELSE messages

\* save() rejects with a VersionError: the update named a version and the
\* document has another one by now.
VersionError(job) ==
    /\ messages[job.messageId].v # job.readV
    /\ \/ job.op = "add" /\ FindIndex(job.read, job.user) # 0
       \/ job.op = "remove" /\ FilterOut(job.read, job.user) # job.read

\* message.save() resolves.  The route then answers and emits nothing.
ReactSave(r) ==
    /\ r \in DOMAIN reacts
    /\ reacts[r].pc = "save"
    /\ messages' = ReactionWrite(reacts[r])
    /\ IF VersionError(reacts[r])
       THEN ReactFail(r, IF reacts[r].kind = "rest" THEN "Internal server error"
                         ELSE IF reacts[r].op = "add" THEN "Failed to add reaction"
                         ELSE "Failed to remove reaction")
       ELSE /\ reacts' = [reacts EXCEPT
                             ![r].pc = IF reacts[r].kind = "socket" THEN "emit" ELSE "done",
                             ![r].ok = reacts[r].kind = "rest"]
            /\ emits' = emits
    /\ UNCHANGED <<presenceVars, users, calls, chatRooms, groups, views, sends, deletes,
                   callJobs, typings, groupJobs, reads, pushes>>

\* The event to every entry of the member list with a presence entry, the
\* requester left out.
RECURSIVE MemberReacted(_, _, _)
MemberReacted(members, r, info) ==
    IF members = <<>> THEN EmptyBag
    ELSE (IF activeUsers[Head(members)] # NoEntry /\ Head(members) # reacts[r].user
          THEN Emit(ReactEvent(reacts[r].op), reacts[r].conn,
                    activeUsers[Head(members)].socketId, "react", r, info)
          ELSE EmptyBag) (+) MemberReacted(Tail(members), r, info)

\* The populates resolve: the event to the requester and, for a direct
\* message, to the receiver's socket if the registry has one now.
ReactEmit(r) ==
    /\ r \in DOMAIN reacts
    /\ reacts[r].pc = "emit"
    /\ LET job == reacts[r]
           m == messages[job.messageId]
           info == ToString(job.messageId)
           toGroup == m.group # NoGroup
       IN  /\ emits' = emits (+) Emit(ReactEvent(job.op), job.conn, job.conn, "react", r, info)
                  (+) (IF ~toGroup /\ m.receiver \in Users /\ activeUsers[m.receiver] # NoEntry
                       THEN Emit(ReactEvent(job.op), job.conn,
                                 activeUsers[m.receiver].socketId, "react", r, info)
                       ELSE EmptyBag)
           /\ reacts' = [reacts EXCEPT ![r].pc = IF toGroup THEN "groupFanout" ELSE "done",
                                       ![r].ok = TRUE]
    /\ UNCHANGED <<presenceVars, storeVars, views, sends, deletes, callJobs, typings, groupJobs, reads, pushes>>

\* Group.findById resolves: the fanout over the member list as it is now.
ReactGroupFanout(r) ==
    /\ r \in DOMAIN reacts
    /\ reacts[r].pc = "groupFanout"
    /\ LET g == messages[reacts[r].messageId].group
       IN  emits' = emits (+)
               (IF g \in Groups /\ groups[g].exists
                THEN MemberReacted(groups[g].members, r, ToString(reacts[r].messageId))
                ELSE EmptyBag)
    /\ reacts' = [reacts EXCEPT ![r].pc = "done"]
    /\ UNCHANGED <<presenceVars, storeVars, views, sends, deletes, callJobs, typings, groupJobs, reads, pushes>>

(***************************************************************************)
(* Calls.  The handlers call-initiate, call-answer, call-decline and       *)
(* call-end.  Each handler reads the call, checks who asks and writes      *)
(* through its copy.  The methods markAsMissed, markAsDeclined and endCall *)
(* of the Call model follow section 4.3 of the specification: a method     *)
(* refuses a transition the state machine does not have from the status of *)
(* the copy it is called on.                                               *)
(***************************************************************************)
NoCall == 0
NoTime == 0
Voice == "voice"
Video == "video"
NoCallType == ""
\* A missing offer, answer or candidate
NoPayload == ""

\* `call-${timestamp}-${random}`: a token no other call has
RoomName(n) == "call-" \o ToString(n)

\* new Call({caller, receiver, callType, status: "initiated", roomName})
NewCall(caller, receiver, callType, roomName) ==
    [caller |-> caller, receiver |-> receiver, callType |-> callType,
     status |-> "initiated", roomName |-> roomName, endTime |-> NoTime,
     offer |-> NoPayload, answer |-> NoPayload, iceCandidates |-> <<>>]

\* const { receiverId, callType = "voice" } = data
CallTypeOrVoice(callType) == IF callType = NoCallType THEN Voice ELSE callType

\* The transitions of the call state machine
Transitions ==
    {<<"initiated", "answered">>, <<"initiated", "declined">>, <<"initiated", "missed">>,
     <<"initiated", "ended">>, <<"answered", "ended">>}

\* call.markAsMissed(): the status it saves, "" when it refuses
markAsMissed(status) == IF <<status, "missed">> \in Transitions THEN "missed" ELSE ""

\* call.markAsDeclined()
markAsDeclined(status) == IF <<status, "declined">> \in Transitions THEN "declined" ELSE ""

\* call.endCall()
endCall(status) == IF <<status, "ended">> \in Transitions THEN "ended" ELSE ""

CallJob(kind, c, receiverId, callType, callId) ==
    [kind |-> kind, conn |-> c, user |-> sockets[c].userId, receiverId |-> receiverId,
     callType |-> callType, callId |-> callId, pc |-> "done", copy |-> "",
     err |-> "", ok |-> FALSE, payload |-> NoPayload]

CallFail(j, text) ==
    /\ callJobs' = [callJobs EXCEPT ![j].pc = "done", ![j].err = text]
    /\ emits' = emits (+) Emit("call-error", callJobs[j].conn, callJobs[j].conn, "call", j, text)

\* The call-initiate event arrives.
CallInitiate(c, receiverId, callType, maxCallJobs) ==
    /\ Connected(c)
    /\ Len(callJobs) < maxCallJobs
    /\ LET j == Len(callJobs) + 1
           job == CallJob("initiate", c, receiverId, CallTypeOrVoice(callType), NoCall)
       IN  IF receiverId = Missing
           THEN /\ callJobs' = Append(callJobs, [job EXCEPT !.err = "Receiver ID is required"])
                /\ emits' = emits (+) Emit("call-error", c, c, "call", j,
                                           "Receiver ID is required")
           ELSE /\ callJobs' = Append(callJobs, [job EXCEPT !.pc = "receiver"])
                /\ emits' = emits
    /\ UNCHANGED <<presenceVars, storeVars, views, sends, deletes, reacts, pushes, typings, groupJobs, reads>>

\* User.findById(receiverId) resolves: the receiver exists and is not the
\* caller, and the handler builds the call.
CallFindReceiver(j) ==
    /\ j \in DOMAIN callJobs
    /\ callJobs[j].kind = "initiate"
    /\ callJobs[j].pc = "receiver"
    /\ IF callJobs[j].receiverId \notin Users THEN CallFail(j, "Receiver not found")
       ELSE IF callJobs[j].user = callJobs[j].receiverId THEN CallFail(j, "Cannot call yourself")
       ELSE /\ callJobs' = [callJobs EXCEPT ![j].pc = "save"]
            /\ emits' = emits
    /\ UNCHANGED <<presenceVars, storeVars, views, sends, deletes, reacts, pushes, typings, groupJobs, reads>>

\* A mutation of the lookup: the registry never has the receiver.
ReceiverSocketNever(receiverId) == NoEntry

\* activeUsers.get(receiverId)
ReceiverSocket(receiverId) == activeUsers[receiverId]

\* call.save() resolves: call-initiated to the caller, then the registry is
\* asked for the receiver: incoming-call to that socket, or markAsMissed.
CallSave(j, maxCalls) ==
    /\ j \in DOMAIN callJobs
    /\ callJobs[j].kind = "initiate"
    /\ callJobs[j].pc = "save"
    /\ Len(calls) < maxCalls
    /\ LET job == callJobs[j]
           id == Len(calls) + 1
           receiverSocket == ReceiverSocket(job.receiverId)
       IN  /\ calls' = Append(calls, NewCall(job.user, job.receiverId, job.callType,
                                             RoomName(id)))
           /\ emits' = emits (+) Emit("call-initiated", job.conn, job.conn, "call", j,
                                      RoomName(id))
                  (+) (IF receiverSocket # NoEntry
                       THEN Emit("incoming-call", job.conn, receiverSocket.socketId,
                                 "call", j, RoomName(id))
                       ELSE EmptyBag)
           /\ callJobs' = [callJobs EXCEPT
                              ![j].callId = id, ![j].copy = "initiated",
                              ![j].pc = IF receiverSocket # NoEntry THEN "done" ELSE "missed",
                              ![j].ok = receiverSocket # NoEntry]
    /\ UNCHANGED <<presenceVars, users, messages, chatRooms, groups, views, sends, deletes,
                   reacts, pushes, typings, groupJobs, reads>>

\* call.markAsMissed() resolves: call-missed to the caller.
CallMissed(j) ==
    /\ j \in DOMAIN callJobs
    /\ callJobs[j].pc = "missed"
    /\ LET job == callJobs[j]
           status == markAsMissed(job.copy)
       IN  IF status = ""
           THEN /\ CallFail(j, "Failed to initiate call")
                /\ calls' = calls
           ELSE /\ calls' = [calls EXCEPT ![job.callId].status = status]
                /\ callJobs' = [callJobs EXCEPT ![j].pc = "done", ![j].copy = status,
                                                ![j].ok = TRUE]
                /\ emits' = emits (+) Emit("call-missed", job.conn, job.conn, "call", j,
                                           "Receiver is offline")
    /\ UNCHANGED <<presenceVars, users, messages, chatRooms, groups, views, sends, deletes,
                   reacts, pushes, typings, groupJobs, reads>>

\* The call-answer, call-decline or call-end event arrives.
CallEvent(c, kind, callId, maxCallJobs) ==
    /\ Connected(c)
    /\ kind \in {"answer", "decline", "end"}
    /\ Len(callJobs) < maxCallJobs
    /\ callJobs' = Append(callJobs,
           [CallJob(kind, c, Missing, NoCallType, callId) EXCEPT !.pc = "find"])
    /\ UNCHANGED <<presenceVars, storeVars, views, sends, deletes, reacts, outVars, typings, groupJobs, reads>>

\* A mutation of the receiver check: the caller passes as well.
IsReceiverOrCaller(call, userId) == call.receiver = userId \/ call.caller = userId

\* call.receiver.toString() !== socket.userId
IsReceiver(call, userId) == call.receiver = userId

\* call.caller.toString() !== socket.userId && call.receiver.toString() !== socket.userId
IsParty(call, userId) == call.caller = userId \/ call.receiver = userId

\* Call.findById(callId) resolves: the call exists and the requester may
\* act on it.
CallFind(j) ==
    /\ j \in DOMAIN callJobs
    /\ callJobs[j].pc = "find"
    /\ LET job == callJobs[j]
       IN  IF job.callId \notin DOMAIN calls THEN CallFail(j, "Call not found")
           ELSE IF job.kind = "answer" /\ ~IsReceiver(calls[job.callId], job.user)
           THEN CallFail(j, "Not authorized to answer this call")
           ELSE IF job.kind = "decline" /\ ~IsReceiver(calls[job.callId], job.user)
           THEN CallFail(j, "Not authorized to decline this call")
           ELSE IF job.kind = "end" /\ ~IsParty(calls[job.callId], job.user)
           THEN CallFail(j, "Not authorized to end this call")
           ELSE /\ callJobs' = [callJobs EXCEPT ![j].pc = "write",
                                                ![j].copy = calls[job.callId].status]
                /\ emits' = emits
    /\ UNCHANGED <<presenceVars, storeVars, views, sends, deletes, reacts, pushes, typings, groupJobs, reads>>

\* call.status = "answered" and call.save() resolve: call-answered to the
\* caller's socket if the registry has one now.
CallAnswerSave(j) ==
    /\ j \in DOMAIN callJobs
    /\ callJobs[j].kind = "answer"
    /\ callJobs[j].pc = "write"
    /\ LET job == callJobs[j]
           callerSocket == activeUsers[calls[job.callId].caller]
       IN  /\ calls' = [calls EXCEPT ![job.callId].status = "answered"]
           /\ callJobs' = [callJobs EXCEPT ![j].pc = "done", ![j].copy = "answered",
                                           ![j].ok = TRUE]
           /\ emits' = emits (+)
                  (IF callerSocket # NoEntry
                   THEN Emit("call-answered", job.conn, callerSocket.socketId, "call", j,
                             ToString(job.callId))
                   ELSE EmptyBag)
    /\ UNCHANGED <<presenceVars, users, messages, chatRooms, groups, views, sends, deletes,
                   reacts, pushes, typings, groupJobs, reads>>

\* call.markAsDeclined() resolves: call-declined to the requester and to
\* the caller's socket if the registry has one now.
CallDeclineSave(j) ==
    /\ j \in DOMAIN callJobs
    /\ callJobs[j].kind = "decline"
    /\ callJobs[j].pc = "write"
    /\ LET job == callJobs[j]
           status == markAsDeclined(job.copy)
           callerSocket == activeUsers[calls[job.callId].caller]
       IN  IF status = ""
           THEN /\ CallFail(j, "Failed to decline call")
                /\ calls' = calls
           ELSE /\ calls' = [calls EXCEPT ![job.callId].status = status]
                /\ callJobs' = [callJobs EXCEPT ![j].pc = "done", ![j].copy = status,
                                                ![j].ok = TRUE]
                /\ emits' = emits
                       (+) Emit("call-declined", job.conn, job.conn, "call", j,
                                ToString(job.callId))
                       (+) (IF callerSocket # NoEntry
                            THEN Emit("call-declined", job.conn, callerSocket.socketId,
                                      "call", j, ToString(job.callId))
                            ELSE EmptyBag)
    /\ UNCHANGED <<presenceVars, users, messages, chatRooms, groups, views, sends, deletes,
                   reacts, pushes, typings, groupJobs, reads>>

\* call.endCall() resolves: call-ended to the requester and to the other
\* party's socket if the registry has one now.
CallEndSave(j) ==
    /\ j \in DOMAIN callJobs
    /\ callJobs[j].kind = "end"
    /\ callJobs[j].pc = "write"
    /\ LET job == callJobs[j]
           call == calls[job.callId]
           status == endCall(job.copy)
           otherUserId == IF call.caller = job.user THEN call.receiver ELSE call.caller
           otherUserSocket == activeUsers[otherUserId]
       IN  IF status = ""
           THEN /\ CallFail(j, "Failed to end call")
                /\ calls' = calls
           ELSE /\ calls' = [calls EXCEPT ![job.callId].status = status,
                                          ![job.callId].endTime = j]
                /\ callJobs' = [callJobs EXCEPT ![j].pc = "done", ![j].copy = status,
                                                ![j].ok = TRUE]
                /\ emits' = emits
                       (+) Emit("call-ended", job.conn, job.conn, "call", j,
                                ToString(job.callId))
                       (+) (IF otherUserSocket # NoEntry
                            THEN Emit("call-ended", job.conn, otherUserSocket.socketId,
                                      "call", j, ToString(job.callId))
                            ELSE EmptyBag)
    /\ UNCHANGED <<presenceVars, users, messages, chatRooms, groups, views, sends, deletes,
                   reacts, pushes, typings, groupJobs, reads>>

(***************************************************************************)
(* Signaling.  The handlers call-offer, call-answer-webrtc and             *)
(* ice-candidate: the call is read, the requester checked, the payload     *)
(* saved on the call and then forwarded to the other party's socket.       *)
(***************************************************************************)
SignalKinds == {"call-offer", "call-answer-webrtc", "ice-candidate"}

\* JSON.stringify(offer), the form the call record keeps
Stringify(payload) == "{" \o payload \o "}"

SignalFail(j, text) ==
    /\ callJobs' = [callJobs EXCEPT ![j].pc = "done", ![j].err = text]
    /\ emits' = emits (+) Emit("call-error", callJobs[j].conn, callJobs[j].conn,
                               "signal", j, text)

\* The error of the first required-field check that fails, "" when none does
SignalRequired(kind, callId, payload) ==
    IF kind = "call-offer"
    THEN IF callId = NoCall THEN "Call ID is required"
         ELSE IF payload = NoPayload THEN "Offer is required" ELSE ""
    ELSE IF kind = "call-answer-webrtc"
    THEN IF callId = NoCall \/ payload = NoPayload
         THEN "Call ID and answer are required" ELSE ""
    ELSE IF callId = NoCall THEN "Call ID is required for ICE candidate"
         ELSE IF payload = NoPayload THEN "ICE candidate is required" ELSE ""

\* The event arrives: the required fields, then Call.findById.
SignalStart(c, kind, callId, payload, maxSignals) ==
    /\ Connected(c)
    /\ kind \in SignalKinds
    /\ Len(callJobs) < maxSignals
    /\ LET j == Len(callJobs) + 1
           job == [CallJob(kind, c, Missing, NoCallType, callId) EXCEPT !.payload = payload]
           text == SignalRequired(kind, callId, payload)
       IN  IF text # ""
           THEN /\ callJobs' = Append(callJobs, [job EXCEPT !.err = text])
                /\ emits' = emits (+) Emit("call-error", c, c, "signal", j, text)
           ELSE /\ callJobs' = Append(callJobs, [job EXCEPT !.pc = "sigFind"])
                /\ emits' = emits
    /\ UNCHANGED <<presenceVars, storeVars, views, sends, deletes, reacts, pushes, typings, groupJobs, reads>>

\* A mutation of the caller check: the receiver passes as well.
IsCallerOrReceiver(call, userId) == call.caller = userId \/ call.receiver = userId

\* call.caller.toString() !== socket.userId
IsCaller(call, userId) == call.caller = userId

\* Who may send a signaling event of the kind
MaySignal(kind, call, userId) ==
    IF kind = "call-offer" THEN IsCaller(call, userId)
    ELSE IF kind = "call-answer-webrtc" THEN IsReceiver(call, userId)
    ELSE IsParty(call, userId)

SignalNotAuthorized(kind) ==
    IF kind = "call-offer" THEN "Not authorized to send offer"
    ELSE IF kind = "call-answer-webrtc" THEN "Not authorized to send answer"
    ELSE "Not authorized to send ICE candidate"

\* Call.findById(callId) resolves: the call exists and the requester may
\* send this event for it.
SignalFind(j) ==
    /\ j \in DOMAIN callJobs
    /\ callJobs[j].pc = "sigFind"
    /\ LET job == callJobs[j]
       IN  IF job.callId \notin DOMAIN calls THEN SignalFail(j, "Call not found")
           ELSE IF ~MaySignal(job.kind, calls[job.callId], job.user)
           THEN SignalFail(j, SignalNotAuthorized(job.kind))
           ELSE /\ callJobs' = [callJobs EXCEPT ![j].pc = "sigSave"]
                /\ emits' = emits
    /\ UNCHANGED <<presenceVars, storeVars, views, sends, deletes, reacts, pushes, typings, groupJobs, reads>>

\* The party the event is forwarded to: the receiver for an offer, the
\* caller for an answer, the other one for a candidate.
OtherParty(kind, call, userId) ==
    IF kind = "call-offer" THEN call.receiver
    ELSE IF kind = "call-answer-webrtc" THEN call.caller
    ELSE IF call.caller = userId THEN call.receiver ELSE call.caller

\* io.to(otherSocket.socketId).emit(kind, {callId, payload, from}) if the
\* registry has an entry of the other party now
Forward(j) ==
    LET job == callJobs[j]
        other == activeUsers[OtherParty(job.kind, calls[job.callId], job.user)]
    IN  IF other # NoEntry
        THEN Emit(job.kind, job.conn, other.socketId, "signal", j, job.payload)
        ELSE EmptyBag

\* call.save() resolves: the payload is on the call record, and the event
\* is forwarded.
SignalSave(j) ==
    /\ j \in DOMAIN callJobs
    /\ callJobs[j].pc = "sigSave"
    /\ LET job == callJobs[j]
       IN  calls' =
               IF job.kind = "call-offer"
               THEN [calls EXCEPT ![job.callId].offer = Stringify(job.payload)]
               ELSE IF job.kind = "call-answer-webrtc"
               THEN [calls EXCEPT ![job.callId].answer = Stringify(job.payload)]
               ELSE [calls EXCEPT ![job.callId].iceCandidates = Append(@, job.payload)]
    /\ callJobs' = [callJobs EXCEPT ![j].pc = "done", ![j].ok = TRUE]
    /\ emits' = emits (+) Forward(j)
    /\ UNCHANGED <<presenceVars, users, messages, chatRooms, groups, views, sends, deletes,
                   reacts, pushes, typings, groupJobs, reads>>

SignalFailed(kind) ==
    IF kind = "call-offer" THEN "Failed to send call offer" ELSE "Failed to send answer"

\* call.save() rejects.  The ice-candidate handler catches the rejection
\* around the save and goes on to forward; in the other two handlers it
\* lands in the catch of the handler.
SignalSaveFail(j) ==
    /\ j \in DOMAIN callJobs
    /\ callJobs[j].pc = "sigSave"
    /\ IF callJobs[j].kind = "ice-candidate"
       THEN /\ callJobs' = [callJobs EXCEPT ![j].pc = "done", ![j].ok = TRUE,
                                            ![j].err = "save"]
            /\ emits' = emits (+) Forward(j)
       ELSE SignalFail(j, SignalFailed(callJobs[j].kind))
    /\ UNCHANGED <<presenceVars, storeVars, views, sends, deletes, reacts, pushes, typings, groupJobs, reads>>

(***************************************************************************)
(* socket.on("typing-start") and socket.on("typing-stop").  The handlers   *)
(* are synchronous; typings keeps one record per event received.           *)
(***************************************************************************)
\* isTyping of the user-typing payload
IsTypingText(isTyping) == IF isTyping THEN "true" ELSE "false"

\* A mutation of the forward: the registry entry is not tested.
TypingForwardAlways(c, t, receiverId, isTyping) ==
    Emit("user-typing", c, (IF receiverId \in Users THEN activeUsers[receiverId]
                            ELSE NoEntry).socketId,
         "typing", t, IsTypingText(isTyping))

\* activeUsers.get(receiverId) and, if it has an entry,
\* io.to(receiverSocket.socketId).emit("user-typing", {senderId, isTyping})
TypingForward(c, t, receiverId, isTyping) ==
    IF receiverId \in Users /\ activeUsers[receiverId] # NoEntry
    THEN Emit("user-typing", c, activeUsers[receiverId].socketId, "typing", t,
              IsTypingText(isTyping))
    ELSE EmptyBag

\* typing-start (isTyping) or typing-stop arrives.
Typing(c, isTyping, receiverId, maxTypings) ==
    /\ Connected(c)
    /\ Len(typings) < maxTypings
    /\ typings' = Append(typings, [conn |-> c, user |-> sockets[c].userId,
                                   receiverId |-> receiverId, isTyping |-> isTyping])
    /\ emits' = emits (+) TypingForward(c, Len(typings) + 1, receiverId, isTyping)
    /\ UNCHANGED <<presenceVars, storeVars, views, sends, deletes, reacts, callJobs, pushes, groupJobs, reads>>

(***************************************************************************)
(* The connection lifecycle on its own: every handshake outcome, every     *)
(* order of connects and disconnects of up to MaxSockets connections.      *)
(***************************************************************************)
InitPresence ==
    /\ sockets = <<>>
    /\ activeUsers = [u \in Users |-> NoEntry]
    /\ seen = <<>>
    /\ users = [u \in Users |-> NoUserDoc]
    /\ messages = <<>>
    /\ chatRooms = <<>>
    /\ groups = [g \in Groups |-> NoGroupDoc]
    /\ views = <<>>
    /\ sends = <<>>
    /\ deletes = <<>>
    /\ reacts = <<>>
    /\ calls = <<>>
    /\ callJobs = <<>>
    /\ typings = <<>>
    /\ groupJobs = <<>>
    /\ reads = <<>>
    /\ emits = EmptyBag
    /\ pushes = EmptyBag

NextPresence ==
    \/ \E tok \in Tokens : Handshake(tok, MaxSockets)
    \/ \E c \in DOMAIN sockets : Reject(c)
    \/ \E c \in DOMAIN sockets : Connection(c)
    \/ \E c \in DOMAIN sockets : Disconnect(c)
    \/ \E c \in DOMAIN sockets, u \in Clients \cup {NoUser}, b \in BOOLEAN :
           ViewStart(c, u, b, MaxViews)
    \/ \E v \in DOMAIN views : ViewMark(v)

SpecPresence == InitPresence /\ [][NextPresence]_vars

(***************************************************************************)
(* Properties of the connection lifecycle.                                 *)
(***************************************************************************)
Registered(c) == c \in DOMAIN sockets /\ sockets[c].userId # NoUser

ForceClosed(c) ==
    EmitCount("user-offline", c, Broadcast, "conn", c, "server namespace disconnect") = 1

TransportClosed(c) ==
    EmitCount("user-offline", c, Broadcast, "conn", c, "transport close") = 1

EntryNotClosed ==
    \A u \in Users :
        activeUsers[u] # NoEntry =>
            /\ Connected(activeUsers[u].socketId)
            /\ sockets[activeUsers[u].socketId].userId = u

RegisterSupersedes ==
    \A c2 \in DOMAIN sockets :
        (sockets[c2].state = "connecting" /\ sockets'[c2].state = "connected") =>
            /\ activeUsers'[sockets'[c2].userId].socketId = c2
            /\ \A c1 \in DOMAIN sockets :
                   (c1 # c2 /\ sockets[c1].userId = sockets'[c2].userId) =>
                       sockets'[c1].state = "closed"

\* C1: when connection c2 of user u is registered, lookup(u) names c2 and
\* every connection of u registered before it has been closed; and in every
\* reachable state the connection a presence entry names is a connected
\* (not closed) connection of that user.
C1_SingleConnection == []EntryNotClosed /\ [][RegisterSupersedes]_vars

C1_Witness ==
    \E c1, c2 \in DOMAIN sockets :
        /\ c1 # c2
        /\ sockets[c1].userId = sockets[c2].userId
        /\ sockets[c1].state = "closed"
        /\ ForceClosed(c1)
        /\ activeUsers[sockets[c2].userId].socketId = c2

EveryConnectedHasEntry ==
    \A c \in DOMAIN sockets :
        Connected(c) => activeUsers[sockets[c].userId].socketId = c

EntryLeavesOnlyWithItsSocket ==
    \A u \in Users :
        (activeUsers[u] # NoEntry
            /\ activeUsers'[u].socketId # activeUsers[u].socketId) =>
                sockets'[activeUsers[u].socketId].state = "closed"

\* C2: every authenticated connection that has not been closed has the one
\* presence entry of its user, naming it; and an entry is removed or replaced
\* only in a step that closes the very connection it named, so the teardown
\* of an older connection never takes the entry of a newer one.
C2_OneEntryPerConnected ==
    []EveryConnectedHasEntry /\ [][EntryLeavesOnlyWithItsSocket]_vars

C2_Witness ==
    \E c1, c2 \in DOMAIN sockets :
        /\ c1 # c2
        /\ sockets[c1].userId = sockets[c2].userId
        /\ sockets[c1].state = "closed"
        /\ TransportClosed(c1)
        /\ Connected(c2)
        /\ activeUsers[sockets[c2].userId] = Entry(c2)

\* C3: the server emits exactly one user-online broadcast for every
\* registration and none for a connection that never registered; two
\* registered connections of one user are never both open, and the open one
\* is the one lookup returns.
C3_SupersedeLogin ==
    \A c \in DOMAIN sockets :
        /\ EmitCount("user-online", c, Broadcast, "conn", c, "")
               = (IF Registered(c) THEN 1 ELSE 0)
        /\ ForceClosed(c) => sockets[c].state = "closed"
        /\ \A d \in DOMAIN sockets :
               (Connected(c) /\ Registered(d) /\ d # c
                   /\ sockets[d].userId = sockets[c].userId) =>
                       /\ sockets[d].state = "closed"
                       /\ activeUsers[sockets[c].userId].socketId = c

C3_Witness ==
    \E c1, c2 \in DOMAIN sockets :
        /\ ForceClosed(c1)
        /\ Connected(c2)
        /\ sockets[c1].userId = sockets[c2].userId
        /\ EmitCount("user-online", c1, Broadcast, "conn", c1, "") = 1
        /\ EmitCount("user-online", c2, Broadcast, "conn", c2, "") = 1

BadToken(tok) == ~tok.present \/ tok.sig # "ok" \/ tok.userId \notin Users

\* C4: a connection whose handshake carries no token, a token that does not
\* verify, or a token of no stored user ends Rejected: it is never
\* registered, no event is emitted on its behalf and no event of it is
\* handled; every handled event belongs to a connection that authenticated.
C4_AuthenticationGate ==
    /\ \A c \in DOMAIN sockets :
           /\ (BadToken(sockets[c].token) /\ sockets[c].state # "connecting")
                  => sockets[c].state = "rejected"
           /\ sockets[c].state = "rejected" =>
                  /\ ~Registered(c)
                  /\ \A u \in Users : activeUsers[u].socketId # c
                  /\ \A e \in BagToSet(emits) : e.by # c
                  /\ \A v \in DOMAIN views : views[v].conn # c
    /\ \A v \in DOMAIN views :
           /\ Registered(views[v].conn)
           /\ ~BadToken(sockets[views[v].conn].token)

C4_Witness ==
    \E c, d \in DOMAIN sockets :
        /\ sockets[c].state = "rejected"
        /\ sockets[c].token = Jwt("forged", "A")
        /\ \E v \in DOMAIN views : views[v].conn = d /\ views[v].user = "A"

(***************************************************************************)
(* Direct messages from A to B.  Both are connected at the start; the      *)
(* friend lists are any the accept and remove routes of /friends leave     *)
(* behind (each writes the two lists one after the other), B may go        *)
(* offline and either may block the other while sends are in flight.       *)
(***************************************************************************)
MaxSends == 1

FriendLists == {{}, {<<"A", "B">>}, {<<"B", "A">>}, {<<"A", "B">>, <<"B", "A">>}}

\* The send-message payloads of A: to B with no text, with an attachment
\* only, with padded text, with a long text and with an unknown message
\* type; to an id of no user; and with no receiverId.
SendPayloads ==
    {[receiverId |-> "B", content |-> Empty,  attachment |-> FALSE, messageType |-> "text"],
     [receiverId |-> "B", content |-> Empty,  attachment |-> TRUE,  messageType |-> "text"],
     [receiverId |-> "B", content |-> Padded, attachment |-> FALSE, messageType |-> "text"],
     [receiverId |-> "B", content |-> Long,   attachment |-> FALSE, messageType |-> "text"],
     [receiverId |-> "B", content |-> Hi,     attachment |-> FALSE, messageType |-> "sticker"],
     [receiverId |-> GhostId, content |-> Hi, attachment |-> FALSE, messageType |-> "text"],
     [receiverId |-> Missing, content |-> Hi, attachment |-> FALSE, messageType |-> "text"]}

InitSend ==
    /\ sockets = <<[state |-> "connected", token |-> Jwt("ok", "A"), userId |-> "A"],
                   [state |-> "connected", token |-> Jwt("ok", "B"), userId |-> "B"]>>
    /\ activeUsers = [u \in Users |->
                        IF u = "A" THEN Entry(1) ELSE IF u = "B" THEN Entry(2) ELSE NoEntry]
    /\ \E fl \in FriendLists :
           users = [u \in Users |->
                       [NoUserDoc EXCEPT !.friends = {v \in Users : <<u, v>> \in fl}]]
    /\ messages = <<>>
    /\ chatRooms = <<>>
    /\ groups = [g \in Groups |-> NoGroupDoc]
    /\ views = <<>>
    /\ sends = <<>>
    /\ deletes = <<>>
    /\ reacts = <<>>
    /\ calls = <<>>
    /\ callJobs = <<>>
    /\ typings = <<>>
    /\ groupJobs = <<>>
    /\ reads = <<>>
    /\ emits = EmptyBag
    /\ pushes = EmptyBag
    /\ seen = SeenAtRest

NextSend ==
    \/ \E p \in SendPayloads :
           SendStart(1, p.receiverId, p.content, p.attachment, p.messageType, FALSE, MaxSends)
    \/ \E j \in DOMAIN sends : SendReadSender(j)
    \/ \E j \in DOMAIN sends : SendBlockCheck(j)
    \/ \E j \in DOMAIN sends : SendFriendsCheck(j)
    \/ \E j \in DOMAIN sends : SendSave(j)
    \/ \E j \in DOMAIN sends : SendLookup(j)
    \/ \E j \in DOMAIN sends : SendRoomFind(j)
    \/ \E j \in DOMAIN sends : SendRoomSave(j)
    \/ \E u, v \in Clients : Block(u, v)
    \/ Disconnect(activeUsers["B"].socketId)

SpecSend == InitSend /\ [][NextSend]_vars

(***************************************************************************)
(* Properties of direct sends.                                             *)
(***************************************************************************)
SendEmits(j) == {e \in BagToSet(emits) : e.src = "send" /\ e.job = j}

SendPushes(j) == {n \in BagToSet(pushes) : n.src = "send" /\ n.job = j}

SendError(j, text) ==
    [ev |-> "message-error", by |-> sends[j].conn, to |-> sends[j].conn,
     src |-> "send", job |-> j, info |-> text]

\* A send that ended in the given error left one message-error for its
\* originator and nothing else: no message, no room, no event, no push.
RefusedWith(j, text) ==
    /\ sends[j].pc = "done"
    /\ sends[j].msg = NoMessage
    /\ sends[j].room = NoRoomDoc
    /\ SendEmits(j) = {SendError(j, text)}
    /\ CopiesIn(SendError(j, text), emits) = 1
    /\ SendPushes(j) = {}
    /\ \A m \in DOMAIN messages : messages[m].messageType = "system"
           \/ \E i \in DOMAIN sends : i # j /\ sends[i].msg = m

HasBlocked(a, b) == b \in users[a].blockedUsers

BlockedSendLeavesNothing ==
    \A j \in DOMAIN sends : sends[j].err = "blocked" => RefusedWith(j, "blocked")

\* The handler reads the sender's list, then the receiver's.
BlockListsRead ==
    \A j \in DOMAIN sends :
        (sends[j].pc = "sender" /\ sends'[j].pc # "sender") =>
            /\ sends'[j].pc = "receiver"
            /\ sends'[j].senderBlockedReceiver = HasBlocked(sends[j].user, sends[j].receiverId)

BlockCheckRefuses ==
    \A j \in DOMAIN sends :
        (/\ sends[j].pc = "receiver"
         /\ sends'[j].pc # "receiver"
         /\ sends[j].receiverId \in Users
         /\ \/ sends[j].senderBlockedReceiver
            \/ HasBlocked(sends[j].receiverId, sends[j].user)) =>
                /\ sends'[j].pc = "done"
                /\ sends'[j].err = "blocked"
                /\ UNCHANGED <<messages, chatRooms, pushes, typings, groupJobs, reads>>

DoneStaysDone ==
    \A j \in DOMAIN sends : sends[j].pc = "done" => sends'[j] = sends[j]

\* C5: a direct send-message whose handler finds the receiver on the
\* sender's block list, or the sender on the receiver's, whichever of the two
\* it is and whether or not the other holds too, ends with one message-error
\* to its originator; it creates no message, creates or updates no chat room,
\* emits nothing else and calls the notification service for nobody.
C5_BlockingSymmetry ==
    /\ []BlockedSendLeavesNothing
    /\ [][BlockListsRead /\ BlockCheckRefuses /\ DoneStaysDone]_vars

C5_Witness ==
    \E j \in DOMAIN sends :
        /\ sends[j].err = "blocked"
        /\ ~sends[j].senderBlockedReceiver
        /\ ~HasBlocked(sends[j].user, sends[j].receiverId)
        /\ HasBlocked(sends[j].receiverId, sends[j].user)

OnFriendList(a, b) == b \in users[a].friends

NonFriendSendLeavesNothing ==
    \A j \in DOMAIN sends :
        /\ sends[j].err = "not friends" =>
               /\ RefusedWith(j, "not friends")
               /\ ~OnFriendList(sends[j].user, sends[j].receiverId)
        /\ (~sends[j].isGroupChat /\ sends[j].pc \notin {"sender", "receiver", "friends"}
                /\ sends[j].err = "" ) =>
               OnFriendList(sends[j].user, sends[j].receiverId)

FriendsCheckRefuses ==
    \A j \in DOMAIN sends :
        (sends[j].pc = "friends" /\ sends'[j].pc # "friends") =>
            IF OnFriendList(sends[j].user, sends[j].receiverId)
            THEN sends'[j].pc = "save" /\ sends'[j].err = ""
            ELSE /\ sends'[j].pc = "done"
                 /\ sends'[j].err = "not friends"
                 /\ UNCHANGED <<messages, chatRooms, pushes, typings, groupJobs, reads>>

\* C6: a direct send-message gets past the friends check only if the
\* receiver is on the sender's friend list; when the receiver is not, the
\* originator gets one message-error, no message is persisted, no chat room
\* is created or updated, and nothing is emitted to or pushed for the receiver.
C6_FriendshipRequired ==
    /\ []NonFriendSendLeavesNothing
    /\ [][FriendsCheckRefuses /\ DoneStaysDone]_vars

C6_Witness ==
    \E j \in DOMAIN sends :
        /\ sends[j].err = "not friends"
        /\ ~OnFriendList(sends[j].user, sends[j].receiverId)
        /\ OnFriendList(sends[j].receiverId, sends[j].user)
        /\ CopiesIn(SendError(j, "not friends"), emits) = 1

\* A direct send that ran to the end and found no presence entry of its
\* receiver when it looked.
DeliveredOffline(j) ==
    /\ ~sends[j].isGroupChat
    /\ sends[j].pc = "done"
    /\ sends[j].err = ""
    /\ sends[j].receiverSocket = NoSocket

\* What the originator got, and the one message the send persisted.
AckEchoAndUnread(j) ==
    LET c == sends[j].conn
        ev(name) == [ev |-> name, by |-> c, to |-> c, src |-> "send", job |-> j,
                     info |-> ""]
    IN  /\ SendEmits(j) = {ev("message-sent"), ev("new-message")}
        /\ CopiesIn(ev("message-sent"), emits) = 1
        /\ CopiesIn(ev("new-message"), emits) = 1
        /\ sends[j].msg \in DOMAIN messages
        /\ messages[sends[j].msg].sender = sends[j].user
        /\ messages[sends[j].msg].receiver = sends[j].receiverId
        /\ ~messages[sends[j].msg].isRead
        /\ \A i \in DOMAIN sends : sends[i].msg = sends[j].msg => i = j

\* The notification service was called once by the send, for the receiver,
\* with data.type "message" and the given body.
PushedOnce(j, body) ==
    LET n == [src |-> "send", job |-> j, user |-> sends[j].receiverId,
              kind |-> "message", title |-> Name(sends[j].user), body |-> body]
    IN  SendPushes(j) = {n} /\ CopiesIn(n, pushes) = 1

\* The first PushBodyLimit characters and "..." of a longer text, the text
\* itself otherwise; "New message" for the empty text.
Preview(t) ==
    IF t = <<>> THEN NewMessageText
    ELSE IF Len(t) <= PushBodyLimit THEN t
    ELSE [i \in 1..(PushBodyLimit + 3) |-> IF i <= PushBodyLimit THEN t[i] ELSE "."]

\* The save of a direct message adds one unread message for the receiver;
\* the isRead write of a send that found no presence entry changes nothing.
SaveAddsOneUnread ==
    \A j \in DOMAIN sends :
        /\ (sends[j].pc = "save" /\ sends'[j].pc = "lookup") =>
               /\ Len(messages') = Len(messages) + 1
               /\ UnreadCount(sends[j].receiverId)' = UnreadCount(sends[j].receiverId) + 1
        /\ (sends[j].pc = "lookup" /\ sends'[j].pc = "room"
                /\ activeUsers[sends[j].receiverId] = NoEntry) =>
               /\ sends'[j].receiverSocket = NoSocket
               /\ messages' = messages

\* A valid send from a sender who has the receiver on the friend list, with
\* neither on the other's block list, is not refused.
RefusedOnlyForCause ==
    \A j \in DOMAIN sends :
        (sends[j].pc # "done" /\ sends'[j].pc = "done" /\ sends'[j].err # "") =>
            \/ sends[j].receiverId \notin Users
            \/ sends[j].senderBlockedReceiver
            \/ HasBlocked(sends[j].receiverId, sends[j].user)
            \/ ~OnFriendList(sends[j].user, sends[j].receiverId)
            \/ sends[j].messageType \notin MessageTypes

\* C7 as stated: the body of the one notification is the message content.
C7_BodyIsContent ==
    \A j \in DOMAIN sends :
        DeliveredOffline(j) =>
            /\ AckEchoAndUnread(j)
            /\ PushedOnce(j, messages[sends[j].msg].content)

\* C7: a direct send to a friend who is not blocked and has no presence entry
\* when the handler looks gives the originator one message-sent and one
\* new-message, emits nothing else, persists one unread message from sender
\* to receiver (the receiver's unread count goes up by one), and calls the
\* notification service once, for the receiver, with kind "message" and as
\* body the content if it has at most 100 characters, its first 100
\* characters followed by "..." if it is longer, and "New message" if it is
\* empty.
C7_OfflineDirectMessage ==
    /\ [](\A j \in DOMAIN sends :
             DeliveredOffline(j) =>
                 /\ AckEchoAndUnread(j)
                 /\ PushedOnce(j, Preview(messages[sends[j].msg].content)))
    /\ [][SaveAddsOneUnread /\ RefusedOnlyForCause]_vars

C7_Witness ==
    \E j \in DOMAIN sends :
        /\ DeliveredOffline(j)
        /\ Connected(sends[j].conn)
        /\ activeUsers[sends[j].receiverId] = NoEntry
        /\ messages[sends[j].msg].content = Long
        /\ UnreadCount(sends[j].receiverId) = 1

(***************************************************************************)
(* Group messages.  A and B are connected, C is not; A creates the group   *)
(* from a member id list and may add members, A or B sends to it, and B may*)
(* go offline at any point.                                                *)
(***************************************************************************)
MemberLists == {<<"B", "C">>, <<"B", "B">>, <<"C", "C">>, <<"C">>}

InitGroup ==
    /\ InitSend
    /\ \A u \in Users : users[u].friends = {}

NextGroup ==
    \/ \E ids \in MemberLists : GroupCreate("A", "G", ids)
    \/ \E ids \in MemberLists : GroupAddMembers("A", "G", ids)
    \/ \E c \in DOMAIN sockets : SendStart(c, "G", Hi, FALSE, "text", TRUE, MaxSends)
    \/ \E j \in DOMAIN sends : SendGroupFind(j)
    \/ \E j \in DOMAIN sends : SendGroupSave(j)
    \/ \E j \in DOMAIN sends : SendGroupFanout(j)
    \/ \E j \in DOMAIN sends : SendGroupPush(j)
    \/ Disconnect(activeUsers["B"].socketId)

SpecGroup == InitGroup /\ [][NextGroup]_vars

\* The new-message events of a send that went to a socket of user u, and
\* the notification service calls it made for u.
NewMessagesTo(j, u) ==
    LET to == {e \in SendEmits(j) : e.ev = "new-message" /\ sockets[e.to].userId = u}
        n[S \in SUBSET to] ==
            IF S = {} THEN 0
            ELSE LET e == CHOOSE x \in S : TRUE
                 IN  CopiesIn(e, emits) + n[S \ {e}]
    IN  n[to]

PushesFor(j, u) ==
    LET for == {p \in SendPushes(j) : p.user = u}
        n[S \in SUBSET for] ==
            IF S = {} THEN 0
            ELSE LET p == CHOOSE x \in S : TRUE
                 IN  CopiesIn(p, pushes) + n[S \ {p}]
    IN  n[for]

SentToGroup(j) ==
    /\ sends[j].isGroupChat
    /\ sends[j].pc = "done"
    /\ sends[j].err = ""

\* C8: every group send that succeeded gave its sender one message-sent and
\* at most one new-message and no notification, and reached every other
\* member of the group exactly once: by one new-message or else by one call
\* of the notification service, never by two of either and never by both.
C8_GroupFanoutOnce ==
    \A j \in DOMAIN sends :
        SentToGroup(j) =>
            /\ EmitCount("message-sent", sends[j].conn, sends[j].conn, "send", j, "") = 1
            /\ NewMessagesTo(j, sends[j].user) <= 1
            /\ PushesFor(j, sends[j].user) = 0
            /\ \A u \in Users \ {sends[j].user} :
                   NewMessagesTo(j, u) + PushesFor(j, u)
                       = (IF InSeq(u, sends[j].members) THEN 1 ELSE 0)

(***************************************************************************)
(* Every writer of the Message collection: the socket handler (direct and  *)
(* group), POST /messages/send, the block and unblock routes and the group *)
(* membership routes, up to MaxMessages route-written messages.            *)
(***************************************************************************)
MaxMessages == 2

InitStore ==
    /\ InitSend
    /\ users["A"].friends = {"B"}
    /\ users["B"].friends = {"A"}

RestTargets == {<<"B", Missing>>, <<Missing, "G">>, <<"B", "G">>}

NextStore ==
    \/ \E g \in BOOLEAN :
           SendStart(1, IF g THEN "G" ELSE "B", Hi, FALSE, "text", g, MaxSends)
    \/ \E j \in DOMAIN sends : SendReadSender(j)
    \/ \E j \in DOMAIN sends : SendBlockCheck(j)
    \/ \E j \in DOMAIN sends : SendFriendsCheck(j)
    \/ \E j \in DOMAIN sends : SendSave(j)
    \/ \E j \in DOMAIN sends : SendLookup(j)
    \/ \E j \in DOMAIN sends : SendRoomFind(j)
    \/ \E j \in DOMAIN sends : SendRoomSave(j)
    \/ \E j \in DOMAIN sends : SendGroupFind(j)
    \/ \E j \in DOMAIN sends : SendGroupSave(j)
    \/ \E j \in DOMAIN sends : SendGroupFanout(j)
    \/ \E j \in DOMAIN sends : SendGroupPush(j)
    \/ GroupCreate("A", "G", <<"B", "C">>)
    \/ \E t \in RestTargets :
           Len(messages) < MaxMessages /\ RestSend("B", t[1], t[2], Hi, FALSE, "text")
    \/ Len(messages) < MaxMessages /\ Block("B", "A")
    \/ Len(messages) < MaxMessages /\ Unblock("B", "A")
    \/ Len(messages) < MaxMessages /\ GroupAddMembers("A", "G", <<"B">>)
    \/ Len(messages) < MaxMessages /\ GroupRemoveMember("A", "G", "B")
    \/ Len(messages) < MaxMessages /\ GroupLeave("C", "G")
    \/ Disconnect(activeUsers["B"].socketId)

SpecStore == InitStore /\ [][NextStore]_vars

\* C9: every persisted message has a receiver or a group and not both,
\* whichever handler or route wrote it.
C9_MessageExclusivity ==
    \A m \in DOMAIN messages :
        (messages[m].receiver # NoUser) # (messages[m].group # NoGroup)

C9_Witness ==
    \E j \in DOMAIN sends, m, n \in DOMAIN messages :
        /\ sends[j].msg # NoMessage
        /\ sends[j].msg \notin {m, n}
        /\ messages[m].messageType = "system"
        /\ messages[n].messageType = "text"
        /\ messages[m].receiver = NoUser
        /\ messages[n].group = NoGroup

(***************************************************************************)
(* Deletes.  The store holds a direct message from A to B and a message of *)
(* A to group G = [A, B, C], persisted by earlier sends; A and B are       *)
(* connected.  Either asks to delete one of them, or a message that does   *)
(* not exist, over the socket or over REST, with up to MaxDeletes requests *)
(* in flight, and B may go offline.                                        *)
(***************************************************************************)
MaxDeletes == 2

InitDelete ==
    /\ sockets = <<[state |-> "connected", token |-> Jwt("ok", "A"), userId |-> "A"],
                   [state |-> "connected", token |-> Jwt("ok", "B"), userId |-> "B"]>>
    /\ activeUsers = [u \in Users |->
                        IF u = "A" THEN Entry(1) ELSE IF u = "B" THEN Entry(2) ELSE NoEntry]
    /\ users = [u \in Users |->
                   [NoUserDoc EXCEPT !.friends =
                       IF u = "A" THEN {"B"} ELSE IF u = "B" THEN {"A"} ELSE {}]]
    /\ messages = <<NewMessage("A", "B", NoGroup, Hi, "text"),
                    NewMessage("A", NoUser, "G", Hi, "text")>>
    /\ chatRooms = <<NewRoom("A", "B", 1)>>
    /\ groups = [g \in Groups |->
                    [exists |-> TRUE, createdBy |-> "A", admins |-> <<"A">>,
                     members |-> <<"A", "B", "C">>, isActive |-> TRUE,
                     lastMessage |-> 2, name |-> Hi, v |-> 0]]
    /\ views = <<>>
    /\ sends = <<>>
    /\ deletes = <<>>
    /\ reacts = <<>>
    /\ calls = <<>>
    /\ callJobs = <<>>
    /\ typings = <<>>
    /\ groupJobs = <<>>
    /\ reads = <<>>
    /\ emits = EmptyBag
    /\ pushes = EmptyBag
    /\ seen = SeenAtRest

NextDelete ==
    \/ \E c \in DOMAIN sockets, m \in {NoMessage, 1, 2, 3} : DeleteStart(c, m, MaxDeletes)
    \/ \E d \in DOMAIN deletes : DeleteFindById(d)
    \/ \E d \in DOMAIN deletes : DeleteFindOne(d)
    \/ \E d \in DOMAIN deletes : DeleteSave(d)
    \/ \E d \in DOMAIN deletes : DeleteEmit(d)
    \/ \E d \in DOMAIN deletes : DeleteGroupFanout(d)
    \/ \E u \in Clients : RestDeleteStart(u, 1, MaxDeletes)
    \/ Disconnect(activeUsers["B"].socketId)

SpecDelete == InitDelete /\ [][NextDelete]_vars

Succeeded(m) == {d \in DOMAIN deletes : deletes[d].messageId = m /\ deletes[d].ok}

\* C10: of all the delete requests for one message at most one succeeds,
\* whatever their interleaving, so message-deleted goes out for a message
\* from at most one request.
C10_TombstoneOnce ==
    \A m \in DOMAIN messages : Cardinality(Succeeded(m)) <= 1

(***************************************************************************)
(* Reactions.  The store is the one of the deletes: a direct message of A  *)
(* to B and a message of A to group G.  A and B add and remove reactions   *)
(* over the socket and over REST with up to MaxReacts requests in flight.  *)
(***************************************************************************)
MaxReacts == 2

ReactPayloads ==
    {[op |-> "add", messageId |-> 1, reaction |-> Thumb],
     [op |-> "add", messageId |-> 1, reaction |-> Heart],
     [op |-> "add", messageId |-> 2, reaction |-> NoReaction],
     [op |-> "add", messageId |-> 1, reaction |-> Bogus],
     [op |-> "add", messageId |-> NoMessage, reaction |-> Thumb],
     [op |-> "remove", messageId |-> 1, reaction |-> NoReaction],
     [op |-> "remove", messageId |-> 3, reaction |-> NoReaction]}

RestReactPayloads ==
    {[op |-> "add", messageId |-> 1, reaction |-> GarbledThumb],
     [op |-> "add", messageId |-> 1, reaction |-> Thumb],
     [op |-> "remove", messageId |-> 1, reaction |-> NoReaction]}

NextReact ==
    \/ \E c \in DOMAIN sockets, p \in ReactPayloads :
           ReactStart(c, p.op, p.messageId, p.reaction, MaxReacts)
    \/ \E u \in Clients, p \in RestReactPayloads :
           RestReactStart(u, p.op, p.messageId, p.reaction, MaxReacts)
    \/ \E r \in DOMAIN reacts : ReactFind(r)
    \/ \E r \in DOMAIN reacts : ReactSave(r)
    \/ \E r \in DOMAIN reacts : ReactEmit(r)
    \/ \E r \in DOMAIN reacts : ReactGroupFanout(r)

SpecReact == InitDelete /\ [][NextReact]_vars

(***************************************************************************)
(* Reactions and a delete together.  B has reacted to the direct message   *)
(* of A before; up to MaxRacingReacts reaction requests of A and B run     *)
(* while A deletes the message.                                            *)
(***************************************************************************)
MaxRacingReacts == 1
MaxReactDeletes == 1

InitReactDelete ==
    /\ sockets = <<[state |-> "connected", token |-> Jwt("ok", "A"), userId |-> "A"],
                   [state |-> "connected", token |-> Jwt("ok", "B"), userId |-> "B"]>>
    /\ activeUsers = [u \in Users |->
                        IF u = "A" THEN Entry(1) ELSE IF u = "B" THEN Entry(2) ELSE NoEntry]
    /\ users = [u \in Users |->
                   [NoUserDoc EXCEPT !.friends =
                       IF u = "A" THEN {"B"} ELSE IF u = "B" THEN {"A"} ELSE {}]]
    /\ messages = <<[NewMessage("A", "B", NoGroup, Hi, "text") EXCEPT
                        !.reactions = <<[user |-> "B", reaction |-> Thumb]>>, !.v = 1]>>
    /\ chatRooms = <<NewRoom("A", "B", 1)>>
    /\ groups = [g \in Groups |-> NoGroupDoc]
    /\ views = <<>>
    /\ sends = <<>>
    /\ deletes = <<>>
    /\ reacts = <<>>
    /\ calls = <<>>
    /\ callJobs = <<>>
    /\ typings = <<>>
    /\ groupJobs = <<>>
    /\ reads = <<>>
    /\ emits = EmptyBag
    /\ pushes = EmptyBag
    /\ seen = SeenAtRest

NextReactDelete ==
    \/ \E c \in DOMAIN sockets, op \in {"add", "remove"} :
           ReactStart(c, op, 1, IF op = "add" THEN Heart ELSE NoReaction, MaxRacingReacts)
    \/ \E u \in Clients, op \in {"add", "remove"} :
           RestReactStart(u, op, 1, IF op = "add" THEN GarbledHeart ELSE NoReaction,
                          MaxRacingReacts)
    \/ \E r \in DOMAIN reacts : ReactFind(r)
    \/ \E r \in DOMAIN reacts : ReactSave(r)
    \/ \E r \in DOMAIN reacts : ReactEmit(r)
    \/ DeleteStart(1, 1, MaxReactDeletes)
    \/ \E d \in DOMAIN deletes : DeleteFindById(d)
    \/ \E d \in DOMAIN deletes : DeleteFindOne(d)
    \/ \E d \in DOMAIN deletes : DeleteSave(d)
    \/ \E d \in DOMAIN deletes : DeleteEmit(d)

SpecReactDelete == InitReactDelete /\ [][NextReactDelete]_vars

\* The lookup of reaction request r resolves in this step.
Finds(r) == reacts[r].pc = "find" /\ reacts'[r].pc # "find"

\* C11: a reaction request whose lookup meets a tombstoned message is
\* refused with "Message not found", and the reactions of a message no
\* longer change once it is tombstoned, also when the request read the
\* message before the deletion and writes after it.
C11_NoReactionAfterTombstone ==
    [][/\ \A r \in DOMAIN reacts :
              Finds(r) /\ reacts[r].messageId \in DOMAIN messages
                       /\ messages[reacts[r].messageId].isDeleted
              => reacts'[r].err = "Message not found" /\ reacts'[r].pc = "done"
       /\ \A m \in DOMAIN messages :
              messages[m].isDeleted => messages'[m].reactions = messages[m].reactions]_vars

\* The reactions of message m that user u made, and those of everybody else
ReactionsOf(m, u) == SelectSeq(messages[m].reactions, LAMBDA e : e.user = u)
ReactionsOfOthers(m, u) == SelectSeq(messages[m].reactions, LAMBDA e : e.user # u)

\* The save of reaction request r resolves in this step without an error.
Saves(r) == reacts[r].pc = "save" /\ reacts'[r].pc # "save" /\ reacts'[r].err = ""

\* C12: whatever the order and interleaving of the add-reaction requests of
\* a user for a message, over the socket and over REST, the message holds at
\* most one reaction of that user, it is the one written last, and the
\* reactions of the other users stay as they were.
C12_ReactionUniqueness ==
    /\ [](\A m \in DOMAIN messages, u \in Users : Len(ReactionsOf(m, u)) <= 1)
    /\ [][\A r \in DOMAIN reacts :
              Saves(r) /\ reacts[r].op = "add"
              => LET m == reacts[r].messageId
                     u == reacts[r].user
                 IN  /\ ReactionsOf(m, u)' = <<[user |-> u, reaction |-> reacts[r].reaction]>>
                     /\ ReactionsOfOthers(m, u)' = ReactionsOfOthers(m, u)]_vars

(***************************************************************************)
(* Calls.  A, B and C are connected.  A calls B, itself, nobody or an id   *)
(* no user has; every connection may answer, decline or end a call, with   *)
(* up to MaxCallJobs call events in all, and B may go offline.             *)
(***************************************************************************)
MaxCalls == 1
MaxCallJobs == 2

InitCall ==
    /\ sockets = [c \in 1..3 |->
                     LET u == <<"A", "B", "C">>[c]
                     IN  [state |-> "connected", token |-> Jwt("ok", u), userId |-> u]]
    /\ activeUsers = [u \in Users |->
                        IF u = "A" THEN Entry(1) ELSE IF u = "B" THEN Entry(2) ELSE Entry(3)]
    /\ users = [u \in Users |-> NoUserDoc]
    /\ messages = <<>>
    /\ chatRooms = <<>>
    /\ groups = [g \in Groups |-> NoGroupDoc]
    /\ views = <<>>
    /\ sends = <<>>
    /\ deletes = <<>>
    /\ reacts = <<>>
    /\ calls = <<>>
    /\ callJobs = <<>>
    /\ typings = <<>>
    /\ groupJobs = <<>>
    /\ reads = <<>>
    /\ emits = EmptyBag
    /\ pushes = EmptyBag
    /\ seen = SeenAtRest

CallPayloads ==
    {[receiverId |-> "B", callType |-> NoCallType],
     [receiverId |-> "B", callType |-> Video],
     [receiverId |-> "A", callType |-> NoCallType],
     [receiverId |-> GhostId, callType |-> NoCallType],
     [receiverId |-> Missing, callType |-> NoCallType]}

CallEvents ==
    {[conn |-> c, kind |-> k, callId |-> 1] : c \in 1..3, k \in {"answer", "decline", "end"}}
    \cup {[conn |-> 2, kind |-> "end", callId |-> 2]}

NextCall ==
    \/ \E p \in CallPayloads : CallInitiate(1, p.receiverId, p.callType, MaxCallJobs)
    \/ \E j \in DOMAIN callJobs : CallFindReceiver(j)
    \/ \E j \in DOMAIN callJobs : CallSave(j, MaxCalls)
    \/ \E j \in DOMAIN callJobs : CallMissed(j)
    \/ \E e \in CallEvents : CallEvent(e.conn, e.kind, e.callId, MaxCallJobs)
    \/ \E j \in DOMAIN callJobs : CallFind(j)
    \/ \E j \in DOMAIN callJobs : CallAnswerSave(j)
    \/ \E j \in DOMAIN callJobs : CallDeclineSave(j)
    \/ \E j \in DOMAIN callJobs : CallEndSave(j)
    \/ Disconnect(activeUsers["B"].socketId)

SpecCall == InitCall /\ [][NextCall]_vars

(***************************************************************************)
(* The life of one call.  A calls B; B answers, declines or ends the call  *)
(* and A ends it, with up to MaxCallEvents call events in all and in any   *)
(* interleaving of their steps, and B may go offline.                      *)
(***************************************************************************)
MaxCallEvents == 3

PartyEvents ==
    {[conn |-> 2, kind |-> "answer"], [conn |-> 2, kind |-> "decline"],
     [conn |-> 2, kind |-> "end"], [conn |-> 1, kind |-> "end"]}

NextCallStates ==
    \/ CallInitiate(1, "B", NoCallType, MaxCallEvents)
    \/ \E j \in DOMAIN callJobs : CallFindReceiver(j)
    \/ \E j \in DOMAIN callJobs : CallSave(j, MaxCalls)
    \/ \E j \in DOMAIN callJobs : CallMissed(j)
    \/ \E e \in PartyEvents : CallEvent(e.conn, e.kind, 1, MaxCallEvents)
    \/ \E j \in DOMAIN callJobs : CallFind(j)
    \/ \E j \in DOMAIN callJobs : CallAnswerSave(j)
    \/ \E j \in DOMAIN callJobs : CallDeclineSave(j)
    \/ \E j \in DOMAIN callJobs : CallEndSave(j)
    \/ Disconnect(activeUsers["B"].socketId)

SpecCallStates == InitCall /\ [][NextCallStates]_vars

(***************************************************************************)
(* Answers alone.  A calls B while B is connected, and A and B send        *)
(* call-answer for the call, with up to MaxCallEvents call events in all.  *)
(***************************************************************************)
NextCallAnswer ==
    \/ CallInitiate(1, "B", NoCallType, MaxCallEvents)
    \/ \E j \in DOMAIN callJobs : CallFindReceiver(j)
    \/ \E j \in DOMAIN callJobs : CallSave(j, MaxCalls)
    \/ \E c \in 1..2 : CallEvent(c, "answer", 1, MaxCallEvents)
    \/ \E j \in DOMAIN callJobs : CallFind(j)
    \/ \E j \in DOMAIN callJobs : CallAnswerSave(j)

SpecCallAnswer == InitCall /\ [][NextCallAnswer]_vars

\* The status a call event asks for, and the moves of section 4.3
Target(kind) ==
    IF kind = "answer" THEN "answered" ELSE IF kind = "decline" THEN "declined" ELSE "ended"

Allowed(from, to) ==
    \/ from = "initiated" /\ to \in {"answered", "declined", "missed", "ended"}
    \/ from = "answered" /\ to = "ended"

\* The write of call event j resolves in this step.
Writes(j) == callJobs[j].pc = "write" /\ callJobs'[j].pc = "done"

\* C13: the status of a call only moves along initiated -> answered,
\* declined, missed or ended and answered -> ended; a call-answer,
\* call-decline or call-end that meets the call in any other status ends in
\* an error and leaves the call as it is, so declined, missed and ended are
\* final.
C13_CallStateMachine ==
    [][/\ \A id \in DOMAIN calls :
              calls'[id].status # calls[id].status
              => Allowed(calls[id].status, calls'[id].status)
       /\ \A j \in DOMAIN callJobs :
              Writes(j) /\ ~Allowed(calls[callJobs[j].callId].status, Target(callJobs[j].kind))
              => callJobs'[j].err # "" /\ calls' = calls]_vars

CallEmits(j) == {e \in BagToSet(emits) : e.src = "call" /\ e.job = j}

CallError(j, text) ==
    [ev |-> "call-error", by |-> callJobs[j].conn, to |-> callJobs[j].conn,
     src |-> "call", job |-> j, info |-> text]

\* Call event j asks for something its requester may not ask of the call.
Unauthorized(j) ==
    LET job == callJobs[j]
    IN  /\ job.callId \in DOMAIN calls
        /\ \/ job.kind \in {"answer", "decline"} /\ calls[job.callId].receiver # job.user
           \/ /\ job.kind = "end"
              /\ job.user \notin {calls[job.callId].caller, calls[job.callId].receiver}

NotAuthorizedText(kind) ==
    IF kind = "answer" THEN "Not authorized to answer this call"
    ELSE IF kind = "decline" THEN "Not authorized to decline this call"
    ELSE "Not authorized to end this call"

\* An unauthorized call event never gets to its write; once it is over, all
\* it has emitted is one call-error to its requester.
UnauthorizedLeavesNothing ==
    \A j \in DOMAIN callJobs :
        Unauthorized(j) =>
            /\ callJobs[j].pc \in {"find", "done"}
            /\ ~callJobs[j].ok
            /\ callJobs[j].pc = "done" =>
                   \E text \in {NotAuthorizedText(callJobs[j].kind), "Call not found"} :
                       /\ callJobs[j].err = text
                       /\ CallEmits(j) = {CallError(j, text)}
                       /\ CopiesIn(CallError(j, text), emits) = 1

\* The lookup of an unauthorized call event ends it with the error of its
\* kind and touches neither the calls nor the pushes.
AuthorizationRefuses ==
    \A j \in DOMAIN callJobs :
        (Unauthorized(j) /\ callJobs[j].pc = "find" /\ callJobs'[j].pc # "find") =>
            /\ callJobs'[j].pc = "done"
            /\ callJobs'[j].err = NotAuthorizedText(callJobs[j].kind)
            /\ UNCHANGED <<calls, pushes, typings, groupJobs, reads>>

\* A call event that is over emits nothing more.
CallDoneStaysDone ==
    \A j \in DOMAIN callJobs :
        callJobs[j].pc = "done" => callJobs'[j] = callJobs[j] /\ CallEmits(j)' = CallEmits(j)

\* C14: a call-answer or call-decline of anybody but the call's receiver,
\* and a call-end of somebody who is neither its caller nor its receiver,
\* ends in one call-error to the requester, leaves the call as it is and
\* reaches nobody else.
C14_CallAuthorization ==
    /\ []UnauthorizedLeavesNothing
    /\ [][AuthorizationRefuses /\ CallDoneStaysDone]_vars

C14_Witness ==
    \E j \in DOMAIN callJobs :
        /\ callJobs[j].kind = "decline"
        /\ callJobs[j].callId \in DOMAIN calls
        /\ callJobs[j].user = calls[callJobs[j].callId].caller
        /\ callJobs[j].err = "Not authorized to decline this call"
        /\ CallEmits(j) = {CallError(j, "Not authorized to decline this call")}
        /\ calls[callJobs[j].callId].status = "initiated"

CallEmit(j, ev, to, info) ==
    [ev |-> ev, by |-> callJobs[j].conn, to |-> to, src |-> "call", job |-> j, info |-> info]

\* How many events call job j has sent that are not errors
IncomingCalls(j) == Cardinality({e \in CallEmits(j) : e.ev = "incoming-call"})
MissedCalls(j) == Cardinality({e \in CallEmits(j) : e.ev = "call-missed"})

\* call.save() of call-initiate j resolves in this step: the call is there
\* in initiated, the caller has the token, and the receiver has
\* incoming-call exactly if the registry holds an entry for them.
InitiateCreates ==
    \A j \in DOMAIN callJobs :
        (callJobs[j].pc = "save" /\ callJobs'[j].pc # "save") =>
            LET id == Len(calls) + 1
                rcv == callJobs[j].receiverId
                present == activeUsers[rcv].socketId # NoSocket
            IN  /\ Len(calls') = id
                /\ calls'[id].status = "initiated"
                /\ calls'[id].caller = callJobs[j].user
                /\ calls'[id].receiver = rcv
                /\ \A k \in DOMAIN calls : calls'[id].roomName # calls[k].roomName
                /\ CopiesIn(CallEmit(j, "call-initiated", callJobs[j].conn,
                                     calls'[id].roomName), emits') = 1
                /\ IF present
                   THEN /\ callJobs'[j].pc = "done"
                        /\ CopiesIn(CallEmit(j, "incoming-call", activeUsers[rcv].socketId,
                                             calls'[id].roomName), emits') = 1
                   ELSE /\ callJobs'[j].pc = "missed"
                        /\ IncomingCalls(j)' = 0

\* A call becomes missed only by the step of its own call-initiate that
\* found no entry, and that step tells the caller.
MissedIsAutomatic ==
    /\ \A j \in DOMAIN callJobs :
           (callJobs[j].pc = "missed" /\ callJobs'[j].pc # "missed") =>
               /\ calls'[callJobs[j].callId].status = "missed"
               /\ CopiesIn(CallEmit(j, "call-missed", callJobs[j].conn,
                                    "Receiver is offline"), emits') = 1
    /\ \A id \in DOMAIN calls :
           (calls[id].status # "missed" /\ calls'[id].status = "missed") =>
               \E j \in DOMAIN callJobs :
                   /\ callJobs[j].kind = "initiate" /\ callJobs[j].callId = id
                   /\ callJobs[j].pc = "missed" /\ callJobs'[j].pc = "done"

\* A call-initiate sends incoming-call or call-missed, never both, and
\* each at most once.
IncomingOrMissed ==
    \A j \in DOMAIN callJobs :
        /\ IncomingCalls(j) + MissedCalls(j) <= 1
        /\ (callJobs[j].kind = "initiate" /\ callJobs[j].pc = "done" /\ callJobs[j].err = "")
               => IncomingCalls(j) + MissedCalls(j) = 1
        /\ callJobs[j].pc = "missed" => IncomingCalls(j) = 0

\* C15: a valid call-initiate creates the call in initiated and sends the
\* caller the rendezvous token; the call goes to missed, and the caller gets
\* call-missed, exactly when the registry has no entry for the receiver at
\* the lookup; when it has one, the receiver gets incoming-call and the call
\* is left in initiated.
C15_AutomaticMissed ==
    /\ []IncomingOrMissed
    /\ [][InitiateCreates /\ MissedIsAutomatic]_vars

C15_Witness ==
    \E j \in DOMAIN callJobs :
        /\ callJobs[j].kind = "initiate"
        /\ callJobs[j].pc = "done"
        /\ callJobs[j].callId \in DOMAIN calls
        /\ calls[callJobs[j].callId].status = "missed"
        /\ MissedCalls(j) = 1
        /\ activeUsers[callJobs[j].receiverId] = NoEntry

CallEndedEvents(j) == {e \in CallEmits(j) : e.ev = "call-ended"}

\* C16: a call is ended once.  A call-end whose write meets the call
\* already ended, whoever sent it and whether it came after the first or
\* together with it, leaves the status and the end time as they are and
\* sends no call-ended.
C16_EndedOnce ==
    [][\A j \in DOMAIN callJobs :
           (callJobs[j].kind = "end" /\ Writes(j)
                /\ calls[callJobs[j].callId].status = "ended")
           => /\ calls'[callJobs[j].callId] = calls[callJobs[j].callId]
              /\ CallEndedEvents(j)' = {}]_vars

(***************************************************************************)
(* Group membership.  A creates group G; every user asks to add members,   *)
(* to remove a member, to leave and to rename the group, in any order,     *)
(* until MaxMemberships membership changes are recorded.                   *)
(***************************************************************************)
MaxMemberships == 3

NextMembers ==
    \/ \E ids \in MemberLists : GroupCreate("A", "G", ids)
    \/ \E u \in Users, ids \in MemberLists :
           Len(messages) < MaxMemberships /\ GroupAddMembers(u, "G", ids)
    \/ \E u \in Users, m \in Users :
           Len(messages) < MaxMemberships /\ GroupRemoveMember(u, "G", m)
    \/ \E u \in Users : Len(messages) < MaxMemberships /\ GroupLeave(u, "G")
    \/ \E u \in Users, name \in {Padded, Long} : GroupSettings(u, "G", name)

SpecMembers == InitCall /\ [][NextMembers]_vars

\* C17: the creator of a group is on its member list and on its admin list
\* from the creation on, whatever members are added or removed, whoever
\* leaves and whatever settings change; no request takes the creator off
\* either list.
C17_CreatorStays ==
    /\ [](\A g \in Groups :
              groups[g].exists =>
                  /\ \E i \in DOMAIN groups[g].members :
                         groups[g].members[i] = groups[g].createdBy
                  /\ \E i \in DOMAIN groups[g].admins :
                         groups[g].admins[i] = groups[g].createdBy)
    /\ [][\A g \in Groups :
              groups[g].exists =>
                  /\ groups'[g].createdBy = groups[g].createdBy
                  /\ (\E i \in DOMAIN groups[g].members :
                          groups[g].members[i] = groups[g].createdBy)
                     => \E i \in DOMAIN groups'[g].members :
                            groups'[g].members[i] = groups[g].createdBy
                  /\ (\E i \in DOMAIN groups[g].admins :
                          groups[g].admins[i] = groups[g].createdBy)
                     => \E i \in DOMAIN groups'[g].admins :
                            groups'[g].admins[i] = groups[g].createdBy]_vars

(***************************************************************************)
(* Failing persistence.  The store is the one of the deletes.  A sends a   *)
(* direct message to B or a message to group G, and deletes a message; any *)
(* query, save or populate a handler waits for may reject.                 *)
(***************************************************************************)
MaxFailSends == 1
MaxFailDeletes == 1

NextFail ==
    \/ \E isGroupChat \in BOOLEAN :
           SendStart(1, IF isGroupChat THEN "G" ELSE "B", Hi, FALSE, "text", isGroupChat,
                     MaxFailSends)
    \/ \E j \in DOMAIN sends : SendReadSender(j)
    \/ \E j \in DOMAIN sends : SendBlockCheck(j)
    \/ \E j \in DOMAIN sends : SendFriendsCheck(j)
    \/ \E j \in DOMAIN sends : SendSave(j)
    \/ \E j \in DOMAIN sends : SendLookup(j)
    \/ \E j \in DOMAIN sends : SendRoomFind(j)
    \/ \E j \in DOMAIN sends : SendRoomSave(j)
    \/ \E j \in DOMAIN sends : SendGroupFind(j)
    \/ \E j \in DOMAIN sends : SendGroupSave(j)
    \/ \E j \in DOMAIN sends : SendGroupFanout(j)
    \/ \E j \in DOMAIN sends : SendPersistFail(j)
    \/ \E m \in {1, 2} : DeleteStart(1, m, MaxFailDeletes)
    \/ \E d \in DOMAIN deletes : DeleteFindById(d)
    \/ \E d \in DOMAIN deletes : DeleteFindOne(d)
    \/ \E d \in DOMAIN deletes : DeleteSave(d)
    \/ \E d \in DOMAIN deletes : DeleteEmit(d)
    \/ \E d \in DOMAIN deletes : DeleteGroupFanout(d)
    \/ \E d \in DOMAIN deletes : DeletePersistFail(d)

SpecFail == InitDelete /\ [][NextFail]_vars

DeleteEmits(d) == {e \in BagToSet(emits) : e.src = "delete" /\ e.job = d}

DeleteError(d, text) ==
    [ev |-> "message-error", by |-> deletes[d].conn, to |-> deletes[d].conn,
     src |-> "delete", job |-> d, info |-> text]

\* A send-message that ended in an error left one message-error for its
\* originator: no ack, no event for anybody else, no push.
FailedSendFansNothing ==
    \A j \in DOMAIN sends :
        sends[j].err # "" =>
            /\ SendEmits(j) = {SendError(j, sends[j].err)}
            /\ CopiesIn(SendError(j, sends[j].err), emits) = 1
            /\ SendPushes(j) = {}

\* The same for a delete-message.
FailedDeleteFansNothing ==
    \A d \in DOMAIN deletes :
        deletes[d].err # "" =>
            /\ DeleteEmits(d) = {DeleteError(d, deletes[d].err)}
            /\ CopiesIn(DeleteError(d, deletes[d].err), emits) = 1

\* C18: a handler in which a validation, an authorization check or a
\* persistence call fails sends its originator an error and no success ack,
\* and sends nothing to anybody else: no event and no push.
C18_NoFanoutOnFailure == FailedSendFansNothing /\ FailedDeleteFansNothing

(***************************************************************************)
(* Failing pushes.  The store is the one of the deletes.  A sends a direct *)
(* message to B or a message to group G = [A, B, C]; C is offline, B may   *)
(* go offline, and the push provider may fail any notification.            *)
(***************************************************************************)
MaxPushSends == 2

NextPush ==
    \/ \E isGroupChat \in BOOLEAN :
           SendStart(1, IF isGroupChat THEN "G" ELSE "B", Hi, FALSE, "text", isGroupChat,
                     MaxPushSends)
    \/ \E j \in DOMAIN sends : SendReadSender(j)
    \/ \E j \in DOMAIN sends : SendBlockCheck(j)
    \/ \E j \in DOMAIN sends : SendFriendsCheck(j)
    \/ \E j \in DOMAIN sends : SendSave(j)
    \/ \E j \in DOMAIN sends : SendLookup(j)
    \/ \E j \in DOMAIN sends : SendRoomFind(j)
    \/ \E j \in DOMAIN sends : SendRoomSave(j)
    \/ \E j \in DOMAIN sends : SendGroupFind(j)
    \/ \E j \in DOMAIN sends : SendGroupSave(j)
    \/ \E j \in DOMAIN sends : SendGroupFanout(j)
    \/ \E j \in DOMAIN sends : SendGroupPush(j)
    \/ \E j \in DOMAIN sends : PushFailed(j)
    \/ Disconnect(activeUsers["B"].socketId)

SpecPush == InitDelete /\ [][NextPush]_vars

\* User u got the message of send j: new-message on a socket of theirs, or
\* a notification handed to the push service.
Reached(j, u) ==
    \/ \E e \in SendEmits(j) :
           e.ev = "new-message" /\ e.to \in DOMAIN sockets /\ sockets[e.to].userId = u
    \/ \E n \in SendPushes(j) : n.user = u

Recipients(j) ==
    IF sends[j].isGroupChat
    THEN {sends[j].members[i] : i \in DOMAIN sends[j].members} \ {sends[j].user}
    ELSE {sends[j].receiverId}

\* A send with a failed notification has its ack and no error, and its
\* message is in the store.
PushFailureIsSilent ==
    \A j \in DOMAIN sends :
        sends[j].pushFailed # {} =>
            /\ sends[j].err = ""
            /\ \A e \in SendEmits(j) : e.ev # "message-error"
            /\ CopiesIn([ev |-> "message-sent", by |-> sends[j].conn, to |-> sends[j].conn,
                         src |-> "send", job |-> j, info |-> ""], emits) = 1
            /\ sends[j].msg \in DOMAIN messages
            /\ messages[sends[j].msg].sender = sends[j].user

\* A send that is over has reached every recipient, failed notifications or
\* not.
NobodySkipped ==
    \A j \in DOMAIN sends :
        (sends[j].pc = "done" /\ sends[j].err = "") =>
            \A u \in Recipients(j) : Reached(j, u)

\* The failure of a notification changes nothing the handler does next.
FailureChangesNothing ==
    \A j \in DOMAIN sends :
        sends'[j].pushFailed # sends[j].pushFailed =>
            /\ sends'[j].pc = sends[j].pc
            /\ sends'[j].offline = sends[j].offline
            /\ UNCHANGED <<messages, emits, pushes, typings, groupJobs, reads>>

\* C19: when the push service fails the notification for an offline
\* recipient, the sender keeps the message-sent ack and gets no
\* message-error, the message stays in the store, the other recipients get
\* what they would have got, and the remaining offline members of a group
\* still get their notification handed to the push service.
C19_PushFailureSilent ==
    /\ [](PushFailureIsSilent /\ NobodySkipped)
    /\ [][FailureChangesNothing]_vars

C19_Witness ==
    \E j \in DOMAIN sends :
        /\ sends[j].isGroupChat
        /\ sends[j].pc = "done"
        /\ sends[j].pushFailed = {"B"}
        /\ \E n \in SendPushes(j) : n.user = "C"
        /\ sends[j].msg \in DOMAIN messages

(***************************************************************************)
(* Sends in a row.  The store is the one of the deletes.  A emits up to    *)
(* MaxOrderedSends send-message events on its one connection, each for B   *)
(* or for group G; sends[i] is the i-th event the server received.         *)
(***************************************************************************)
MaxOrderedSends == 2

NextOrder ==
    \/ \E isGroupChat \in BOOLEAN :
           SendStart(1, IF isGroupChat THEN "G" ELSE "B", Hi, FALSE, "text", isGroupChat,
                     MaxOrderedSends)
    \/ \E j \in DOMAIN sends : SendReadSender(j)
    \/ \E j \in DOMAIN sends : SendBlockCheck(j)
    \/ \E j \in DOMAIN sends : SendFriendsCheck(j)
    \/ \E j \in DOMAIN sends : SendSave(j)
    \/ \E j \in DOMAIN sends : SendLookup(j)
    \/ \E j \in DOMAIN sends : SendRoomFind(j)
    \/ \E j \in DOMAIN sends : SendRoomSave(j)
    \/ \E j \in DOMAIN sends : SendGroupFind(j)
    \/ \E j \in DOMAIN sends : SendGroupSave(j)
    \/ \E j \in DOMAIN sends : SendGroupFanout(j)

SpecOrder == InitDelete /\ [][NextOrder]_vars

\* Two events of one connection for one conversation, e1 received first
SameConversation(e1, e2) ==
    /\ e1 < e2
    /\ sends[e1].conn = sends[e2].conn
    /\ sends[e1].isGroupChat = sends[e2].isGroupChat
    /\ sends[e1].receiverId = sends[e2].receiverId

Acked(j) ==
    CopiesIn([ev |-> "message-sent", by |-> sends[j].conn, to |-> sends[j].conn,
              src |-> "send", job |-> j, info |-> ""], emits) > 0

\* C20: of two send-message events of one connection for one conversation
\* the message of the first is persisted and delivered before the message
\* of the second: the second is neither saved nor acknowledged while the
\* first is still being handled.
C20_PerSenderOrder ==
    \A e1, e2 \in DOMAIN sends :
        SameConversation(e1, e2) =>
            /\ sends[e2].msg # NoMessage =>
                   \/ sends[e1].pc = "done" /\ sends[e1].msg = NoMessage
                   \/ sends[e1].msg # NoMessage /\ sends[e1].msg < sends[e2].msg
            /\ Acked(e2) => sends[e1].pc = "done"

(***************************************************************************)
(* A send raced by a block.  The handler reads the two block lists at its  *)
(* start and writes the message several awaits later; POST /users/block    *)
(* may be served in between.                                               *)
(***************************************************************************)
BlockInEffect(a, b) == HasBlocked(a, b) \/ HasBlocked(b, a)

\* The message of send j is written, acknowledged or put on its way to the
\* receiver in this step.
SendWrites(j) ==
    \/ sends[j].pc = "save" /\ sends'[j].pc = "lookup"
    \/ sends[j].pc = "roomSave" /\ sends'[j].pc = "done"

\* C21: no step of a direct send-message from A to B writes, acknowledges
\* or delivers the message while a block between A and B is in effect,
\* whatever the interleaving of the handler with a block request: the block
\* lists count as they are when the message is written, not as they were
\* when the handler started.
C21_BlockRecheckedAtWrite ==
    [][\A j \in DOMAIN sends :
           (~sends[j].isGroupChat /\ SendWrites(j)) =>
               ~BlockInEffect(sends[j].user, sends[j].receiverId)]_vars

(***************************************************************************)
(* The two paths to the receiver of a direct message.  The registry is     *)
(* looked up after the message is saved; the emits follow the saves of the *)
(* isRead flag and of the chat room.                                       *)
(***************************************************************************)
\* Send j emits new-message in this step to the connection that is then
\* the receiver's presence entry.
EmitsToPresent(j) ==
    LET entry == activeUsers[sends[j].receiverId]
        e == [ev |-> "new-message", by |-> sends[j].conn, to |-> entry.socketId,
              src |-> "send", job |-> j, info |-> ""]
    IN  /\ entry # NoEntry
        /\ CopiesIn(e, emits') = CopiesIn(e, emits) + 1

\* Send j invokes the notification service for the receiver in this step.
NotifiesReceiver(j) ==
    \E n \in BagToSet(pushes') :
        /\ n.src = "send" /\ n.job = j /\ n.user = sends[j].receiverId
        /\ CopiesIn(n, pushes') = CopiesIn(n, pushes) + 1

\* C22: the step of a direct send-message that emits message-sent reaches
\* the receiver by exactly one path: new-message to the connection that is
\* the receiver's presence entry at that time, or the call of the
\* notification service for the receiver; never neither and never both.
C22_ExactlyOnePath ==
    [][\A j \in DOMAIN sends :
           (/\ ~sends[j].isGroupChat
            /\ sends[j].pc = "roomSave"
            /\ sends'[j].pc = "done"
            /\ sends'[j].err = "") =>
               (EmitsToPresent(j) # NotifiesReceiver(j))]_vars

(***************************************************************************)
(* First messages.  A and B are friends and connected and have no chat     *)
(* room yet.  Each emits send-message events for the other, up to          *)
(* MaxRoomSends in all, and either may block the other, which finds or     *)
(* creates the room as well.                                               *)
(***************************************************************************)
MaxRoomSends == 2

InitRoom ==
    /\ sockets = <<[state |-> "connected", token |-> Jwt("ok", "A"), userId |-> "A"],
                   [state |-> "connected", token |-> Jwt("ok", "B"), userId |-> "B"]>>
    /\ activeUsers = [u \in Users |->
                        IF u = "A" THEN Entry(1) ELSE IF u = "B" THEN Entry(2) ELSE NoEntry]
    /\ users = [u \in Users |->
                   [NoUserDoc EXCEPT !.friends =
                       IF u = "A" THEN {"B"} ELSE IF u = "B" THEN {"A"} ELSE {}]]
    /\ messages = <<>>
    /\ chatRooms = <<>>
    /\ groups = [g \in Groups |-> NoGroupDoc]
    /\ views = <<>>
    /\ sends = <<>>
    /\ deletes = <<>>
    /\ reacts = <<>>
    /\ calls = <<>>
    /\ callJobs = <<>>
    /\ typings = <<>>
    /\ groupJobs = <<>>
    /\ reads = <<>>
    /\ emits = EmptyBag
    /\ pushes = EmptyBag
    /\ seen = SeenAtRest

NextRoom ==
    \/ \E c \in DOMAIN sockets :
           SendStart(c, IF c = 1 THEN "B" ELSE "A", Hi, FALSE, "text", FALSE, MaxRoomSends)
    \/ \E j \in DOMAIN sends : SendReadSender(j)
    \/ \E j \in DOMAIN sends : SendBlockCheck(j)
    \/ \E j \in DOMAIN sends : SendFriendsCheck(j)
    \/ \E j \in DOMAIN sends : SendSave(j)
    \/ \E j \in DOMAIN sends : SendLookup(j)
    \/ \E j \in DOMAIN sends : SendRoomFind(j)
    \/ \E j \in DOMAIN sends : SendRoomSave(j)
    \/ \E u, v \in Clients : Block(u, v)

SpecRoom == InitRoom /\ [][NextRoom]_vars

Pair(r) == {chatRooms[r].participants[i] : i \in DOMAIN chatRooms[r].participants}

PrivateRooms == {r \in DOMAIN chatRooms : chatRooms[r].roomType = "private"}

\* C23: every private chat room has exactly 2 participants, no two private
\* rooms are of the same unordered pair of users, and no step removes a
\* room, whatever the interleaving of the first messages of the pair and of
\* block requests.
C23_OneRoomPerPair ==
    /\ [](\A r \in PrivateRooms :
              /\ Len(chatRooms[r].participants) = 2
              /\ \A q \in PrivateRooms : Pair(q) = Pair(r) => q = r)
    /\ [][/\ Len(chatRooms') >= Len(chatRooms)
          /\ \A r \in DOMAIN chatRooms :
                 chatRooms'[r].participants = chatRooms[r].participants]_vars

(***************************************************************************)
(* Who hears of a reaction.                                                *)
(***************************************************************************)
\* The copies of the reaction event of request r that this step sends to
\* socket s.
ReactionEventsTo(r, s) ==
    LET e == [ev |-> ReactEvent(reacts[r].op), by |-> reacts[r].conn, to |-> s,
              src |-> "react", job |-> r, info |-> ToString(reacts[r].messageId)]
    IN  CopiesIn(e, emits') - CopiesIn(e, emits)

\* The participant of a direct message that is not u
OtherParticipant(m, u) ==
    IF messages[m].sender = u THEN messages[m].receiver ELSE messages[m].sender

\* The step of request r that emits for a direct message
DirectReactionFanout(r) ==
    LET other == OtherParticipant(reacts[r].messageId, reacts[r].user)
    IN  /\ ReactionEventsTo(r, reacts[r].conn) = 1
        /\ (other \in Users /\ other # reacts[r].user /\ activeUsers[other] # NoEntry) =>
               ReactionEventsTo(r, activeUsers[other].socketId) = 1

\* The two steps of request r that emit for a group message
GroupReactionFanout(r) ==
    LET g == messages[reacts[r].messageId].group
    IN  /\ reacts[r].pc = "emit" => ReactionEventsTo(r, reacts[r].conn) = 1
        /\ reacts[r].pc = "groupFanout" =>
               /\ ReactionEventsTo(r, reacts[r].conn) = 0
               /\ \A u \in Users :
                      (/\ InSeq(u, groups[g].members)
                       /\ u # reacts[r].user
                       /\ activeUsers[u] # NoEntry) =>
                          ReactionEventsTo(r, activeUsers[u].socketId) = 1

\* C24: add-reaction and remove-reaction on a direct message send the event
\* once to the requester and once to the other participant of the
\* conversation if present, be that the message's sender or its receiver;
\* on a group message once to the requester and once to every other present
\* member.  The requester never gets the event twice.
C24_ReactionFanout ==
    [][\A r \in DOMAIN reacts :
           (/\ reacts[r].kind = "socket"
            /\ reacts[r].pc \in {"emit", "groupFanout"}
            /\ reacts'[r].pc # reacts[r].pc) =>
               IF messages[reacts[r].messageId].group = NoGroup
               THEN DirectReactionFanout(r)
               ELSE GroupReactionFanout(r)]_vars

(***************************************************************************)
(* Deletes asked for by somebody else than the sender.                     *)
(***************************************************************************)
UnauthorizedText == "Message not found or unauthorized"

\* Request d is for a stored message that the requester did not send.
NotTheSender(d) ==
    /\ deletes[d].messageId \in DOMAIN messages
    /\ messages[deletes[d].messageId].sender # deletes[d].user

\* Such a request never gets past the query, and once done it has left an
\* error for its originator and no message-deleted for anyone.
OnlySenderDeletes ==
    \A d \in DOMAIN deletes :
        NotTheSender(d) =>
            /\ deletes[d].pc \in {"exists", "find", "done"}
            /\ ~deletes[d].ok
            /\ deletes[d].pc = "done" =>
                   /\ deletes[d].err = UnauthorizedText
                   /\ DeleteEmits(d) = IF deletes[d].kind = "socket"
                                       THEN {DeleteError(d, UnauthorizedText)}
                                       ELSE {}
                   /\ deletes[d].kind = "socket" =>
                          CopiesIn(DeleteError(d, UnauthorizedText), emits) = 1

\* No step of such a request changes a message.
OthersDeleteChangesNothing ==
    \A d \in DOMAIN deletes :
        (NotTheSender(d) /\ deletes'[d] # deletes[d]) => messages' = messages

\* C25: delete-message and DELETE /message/:messageId by anyone but the
\* message's sender end with an error for the originator, leave the message
\* (content, type, isDeleted, deletedBy, reactions) as it was and send
\* message-deleted to no one.
C25_SenderOnlyDeletion ==
    /\ []OnlySenderDeletes
    /\ [][OthersDeleteChangesNothing]_vars

\* B has asked to delete A's message over the socket and over REST, and
\* both requests are over.
C25_Witness ==
    /\ \E d \in DOMAIN deletes :
           /\ NotTheSender(d) /\ deletes[d].kind = "socket" /\ deletes[d].pc = "done"
           /\ deletes[d].err = UnauthorizedText
    /\ \E d \in DOMAIN deletes :
           /\ NotTheSender(d) /\ deletes[d].kind = "rest" /\ deletes[d].pc = "done"
           /\ deletes[d].err = UnauthorizedText
    /\ \A m \in DOMAIN messages : ~messages[m].isDeleted

(***************************************************************************)
(* Tombstones among the other writers of a message.  The store is the one  *)
(* of the deletes.  A deletes its messages over the socket or over REST,   *)
(* B reacts to the direct message and opens the chat with A, which marks   *)
(* A's messages read, and A sends B one more message, which it may delete  *)
(* while the send is still being handled: MaxTombJobs requests in all.     *)
(***************************************************************************)
MaxTombJobs == 3

\* The requests of one kind still admitted when the others are counted
TombBudget(own) ==
    MaxTombJobs - (Len(deletes) + Len(reacts) + Len(views) + Len(sends)) + own

NextTomb ==
    \/ \E m \in {1, 3} : DeleteStart(1, m, TombBudget(Len(deletes)))
    \/ RestDeleteStart("A", 1, TombBudget(Len(deletes)))
    \/ \E d \in DOMAIN deletes : DeleteFindById(d)
    \/ \E d \in DOMAIN deletes : DeleteFindOne(d)
    \/ \E d \in DOMAIN deletes : DeleteSave(d)
    \/ \E d \in DOMAIN deletes : DeleteEmit(d)
    \/ \E op \in {"add", "remove"} : ReactStart(2, op, 1, Thumb, TombBudget(Len(reacts)))
    \/ \E r \in DOMAIN reacts : ReactFind(r)
    \/ \E r \in DOMAIN reacts : ReactSave(r)
    \/ \E r \in DOMAIN reacts : ReactEmit(r)
    \/ ViewStart(2, "A", TRUE, TombBudget(Len(views)))
    \/ \E v \in DOMAIN views : ViewMark(v)
    \/ SendStart(1, "B", Hi, FALSE, "text", FALSE, TombBudget(Len(sends)))
    \/ \E j \in DOMAIN sends : SendReadSender(j)
    \/ \E j \in DOMAIN sends : SendBlockCheck(j)
    \/ \E j \in DOMAIN sends : SendFriendsCheck(j)
    \/ \E j \in DOMAIN sends : SendSave(j)
    \/ \E j \in DOMAIN sends : SendLookup(j)
    \/ \E j \in DOMAIN sends : SendRoomFind(j)
    \/ \E j \in DOMAIN sends : SendRoomSave(j)


SpecTomb == InitDelete /\ [][NextTomb]_vars

\* A stored message is a tombstone
IsTombstone(doc) ==
    /\ doc.isDeleted
    /\ doc.content = DeletedText
    /\ doc.messageType = "deleted"

\* The save of delete request d leaves a tombstone of its message with the
\* requester as deletedBy and with the id, sender, receiver and group the
\* message had.
DeleteLeavesTombstone ==
    \A d \in DOMAIN deletes :
        (deletes[d].pc = "save" /\ deletes'[d].pc \in {"emit", "done"} /\ deletes'[d].err = "") =>
            LET m == deletes[d].messageId
            IN  /\ Len(messages') = Len(messages)
                /\ IsTombstone(messages'[m])
                /\ messages'[m].deletedBy = deletes[d].user
                /\ messages'[m].sender = messages[m].sender
                /\ messages'[m].receiver = messages[m].receiver
                /\ messages'[m].group = messages[m].group

\* No step takes a message out of the store, changes its participants or
\* turns a deleted message back.
TombstoneStays ==
    /\ Len(messages') >= Len(messages)
    /\ \A m \in DOMAIN messages :
           /\ messages'[m].sender = messages[m].sender
           /\ messages'[m].receiver = messages[m].receiver
           /\ messages'[m].group = messages[m].group
           /\ messages[m].isDeleted => IsTombstone(messages'[m])

\* C26: a successful deletion leaves the message with its id, sender and
\* receiver or group, with isDeleted = true, deletedBy = the requester, the
\* placeholder as content and the type "deleted"; whatever follows
\* (read-marking, reactions, further deletes, sends), isDeleted stays true
\* and content and type stay the placeholder and "deleted".
C26_TombstoneIrreversible ==
    /\ [](\A m \in DOMAIN messages : messages[m].isDeleted => IsTombstone(messages[m]))
    /\ [][DeleteLeavesTombstone /\ TombstoneStays]_vars

\* The direct message of A was deleted by A, and B has opened the chat and
\* has a reaction on it.
C26_Witness ==
    /\ IsTombstone(messages[1])
    /\ messages[1].deletedBy = "A"
    /\ messages[1].isRead
    /\ messages[1].reactions # <<>>
    /\ \E d \in DOMAIN deletes : deletes[d].messageId = 1 /\ deletes[d].ok
    /\ \E r \in DOMAIN reacts : reacts[r].pc = "done" /\ reacts[r].ok
    /\ \E v \in DOMAIN views : views[v].pc = "done"

(***************************************************************************)
(* Signaling of one call.  A has called B; A, B and C are connected.  Any  *)
(* of them emits signaling events for the call while B may lose its        *)
(* connection and connect again: MaxSignals events and connections in all, *)
(* the first three connections included.                                   *)
(***************************************************************************)
MaxSignals == 5

Sdp == "sdp"

InitSignal ==
    /\ sockets = <<[state |-> "connected", token |-> Jwt("ok", "A"), userId |-> "A"],
                   [state |-> "connected", token |-> Jwt("ok", "B"), userId |-> "B"],
                   [state |-> "connected", token |-> Jwt("ok", "C"), userId |-> "C"]>>
    /\ activeUsers = [u \in Users |->
                        IF u = "A" THEN Entry(1) ELSE IF u = "B" THEN Entry(2) ELSE Entry(3)]
    /\ users = [u \in Users |-> NoUserDoc]
    /\ messages = <<>>
    /\ chatRooms = <<>>
    /\ groups = [g \in Groups |-> NoGroupDoc]
    /\ views = <<>>
    /\ sends = <<>>
    /\ deletes = <<>>
    /\ reacts = <<>>
    /\ calls = <<NewCall("A", "B", Voice, RoomName(1))>>
    /\ callJobs = <<>>
    /\ typings = <<>>
    /\ groupJobs = <<>>
    /\ reads = <<>>
    /\ emits = EmptyBag
    /\ pushes = EmptyBag
    /\ seen = SeenAtRest

\* The signaling payloads: each event for the call, and events with no call
\* id, with no payload and for a call that does not exist.
SignalPayloads ==
    {[kind |-> k, callId |-> 1, payload |-> Sdp] : k \in SignalKinds}
        \cup {[kind |-> "call-offer", callId |-> NoCall, payload |-> Sdp],
              [kind |-> "call-answer-webrtc", callId |-> 1, payload |-> NoPayload],
              [kind |-> "ice-candidate", callId |-> 2, payload |-> Sdp]}

NextSignal ==
    \/ \E c \in DOMAIN sockets, p \in SignalPayloads :
           SignalStart(c, p.kind, p.callId, p.payload, MaxSignals - Len(sockets))
    \/ \E j \in DOMAIN callJobs : SignalFind(j)
    \/ \E j \in DOMAIN callJobs : SignalSave(j)
    \/ Handshake(Jwt("ok", "B"), MaxSignals - Len(callJobs))
    \/ \E c \in DOMAIN sockets : Connection(c)
    \/ Disconnect(activeUsers["B"].socketId)

SpecSignal == InitSignal /\ [][NextSignal]_vars

\* The request passed the required-field checks and is for a stored call.
ForStoredCall(j) ==
    /\ callJobs[j].kind \in SignalKinds
    /\ callJobs[j].callId \in DOMAIN calls
    /\ callJobs[j].payload # NoPayload

\* The requester is the party that may send the event: the caller an
\* offer, the receiver an answer, either a candidate.
Permitted(j) ==
    LET call == calls[callJobs[j].callId]
        u == callJobs[j].user
    IN  \/ callJobs[j].kind = "call-offer" /\ u = call.caller
        \/ callJobs[j].kind = "call-answer-webrtc" /\ u = call.receiver
        \/ callJobs[j].kind = "ice-candidate" /\ u \in {call.caller, call.receiver}

SignalEmits(j) == {e \in BagToSet(emits) : e.src = "signal" /\ e.job = j}

SignalError(j, text) ==
    [ev |-> "call-error", by |-> callJobs[j].conn, to |-> callJobs[j].conn,
     src |-> "signal", job |-> j, info |-> text]

\* A request of anyone else is refused: one call-error and nothing
\* forwarded.
SignalAuthorization ==
    \A j \in DOMAIN callJobs :
        (ForStoredCall(j) /\ ~Permitted(j)) =>
            /\ callJobs[j].pc \in {"sigFind", "done"}
            /\ ~callJobs[j].ok
            /\ callJobs[j].pc = "done" =>
                   /\ callJobs[j].err = SignalNotAuthorized(callJobs[j].kind)
                   /\ SignalEmits(j) = {SignalError(j, callJobs[j].err)}
                   /\ CopiesIn(SignalError(j, callJobs[j].err), emits) = 1

\* The user the event of request j is for
Addressee(j) ==
    LET call == calls[callJobs[j].callId]
    IN  IF callJobs[j].user = call.caller THEN call.receiver ELSE call.caller

\* Request j gets past its save in this step.
Forwards(j) ==
    /\ ForStoredCall(j)
    /\ callJobs[j].pc = "sigSave"
    /\ callJobs'[j].pc = "done"
    /\ callJobs'[j].ok

\* The step that forwards sends the payload as received, once, to the
\* socket of the addressee's presence entry, and sends nothing when the
\* addressee has none.
ForwardOrDrop ==
    \A j \in DOMAIN callJobs :
        Forwards(j) =>
            /\ Permitted(j)
            /\ LET entry == activeUsers[Addressee(j)]
               IN  emits' = IF entry = NoEntry THEN emits
                            ELSE emits (+) SetToBag({[ev |-> callJobs[j].kind,
                                                      by |-> callJobs[j].conn,
                                                      to |-> entry.socketId,
                                                      src |-> "signal", job |-> j,
                                                      info |-> callJobs[j].payload]})

\* No other step sends a signaling event: none is kept for later.
NothingQueued ==
    \A e \in BagToSet(emits') :
        (e.ev \in SignalKinds /\ CopiesIn(e, emits') # CopiesIn(e, emits)) =>
            /\ e.job \in DOMAIN callJobs
            /\ Forwards(e.job)

\* C27: call-offer is accepted from the call's caller only, call-answer-webrtc
\* from its receiver only and ice-candidate from either party; an accepted
\* payload goes unchanged to the socket of the other party's presence entry
\* if there is one and is dropped otherwise; no later step, a connect of
\* that party included, sends it.
C27_SignalingForwardOrDrop ==
    /\ []SignalAuthorization
    /\ [][ForwardOrDrop /\ NothingQueued]_vars

\* A's offer was accepted while B had no connection and nothing was sent
\* for it; B has connected again since.
C27_Witness ==
    /\ \E j \in DOMAIN callJobs :
           /\ callJobs[j].kind = "call-offer"
           /\ callJobs[j].user = "A"
           /\ callJobs[j].ok
           /\ SignalEmits(j) = {}
    /\ sockets[2].state = "closed"
    /\ activeUsers["B"] # NoEntry

(***************************************************************************)
(* Signaling with a store that may refuse the save of the call record.     *)
(***************************************************************************)
NextSignalFail ==
    \/ NextSignal
    \/ \E j \in DOMAIN callJobs : SignalSaveFail(j)

SpecSignalFail == InitSignal /\ [][NextSignalFail]_vars

\* C28: whether the save of the offer, answer or candidate on the call
\* record succeeds or fails, the step that ends it forwards the payload to
\* the other party's socket if that party has a presence entry, and the
\* requester gets no call-error.
C28_PersistenceBestEffort ==
    [][\A j \in DOMAIN callJobs :
           (ForStoredCall(j) /\ callJobs[j].pc = "sigSave" /\ callJobs'[j].pc = "done") =>
               LET entry == activeUsers[Addressee(j)]
               IN  emits' = IF entry = NoEntry THEN emits
                            ELSE emits (+) SetToBag({[ev |-> callJobs[j].kind,
                                                      by |-> callJobs[j].conn,
                                                      to |-> entry.socketId,
                                                      src |-> "signal", job |-> j,
                                                      info |-> callJobs[j].payload]})]_vars

(***************************************************************************)
(* Typing indicators.  A and B are connected; either emits typing-start    *)
(* and typing-stop for the other, for C, who is not connected, for an id   *)
(* of no user or with no receiverId, while B may lose its connection and   *)
(* connect again: MaxTypings events and connections in all, the first two  *)
(* connections included.                                                   *)
(***************************************************************************)
MaxTypings == 5

NextTyping ==
    \/ \E c \in DOMAIN sockets, isTyping \in BOOLEAN,
          receiverId \in Users \cup {GhostId, Missing} :
           Typing(c, isTyping, receiverId, MaxTypings - Len(sockets))
    \/ Handshake(Jwt("ok", "B"), MaxTypings - Len(typings))
    \/ \E c \in DOMAIN sockets : Connection(c)
    \/ Disconnect(activeUsers["B"].socketId)

SpecTyping == InitRoom /\ [][NextTyping]_vars

\* A typing event is received in this step.
TypingReceived == Len(typings') = Len(typings) + 1

\* The step that receives a typing event sends user-typing, with isTyping
\* as the event says, once to the socket of the receiver's presence entry,
\* and sends nothing when the receiver has none; it writes nothing.
TypingForwardOrDrop ==
    TypingReceived =>
        LET t == Len(typings')
            ev == typings'[t]
            entry == IF ev.receiverId \in Users THEN activeUsers[ev.receiverId] ELSE NoEntry
        IN  /\ emits' = IF entry = NoEntry THEN emits
                        ELSE emits (+) SetToBag({[ev |-> "user-typing", by |-> ev.conn,
                                                  to |-> entry.socketId, src |-> "typing",
                                                  job |-> t,
                                                  info |-> IF ev.isTyping THEN "true"
                                                           ELSE "false"]})
            /\ UNCHANGED <<users, messages, chatRooms, groups, calls, pushes, groupJobs, reads>>

\* No other step sends user-typing: none is kept for later.
NoTypingQueued ==
    ~TypingReceived =>
        \A e \in BagToSet(emits') :
            e.ev = "user-typing" => CopiesIn(e, emits') = CopiesIn(e, emits)

\* C29: typing-start and typing-stop are forwarded as user-typing with
\* isTyping true / false to the socket of the receiver's presence entry if
\* there is one at that time and are dropped otherwise; they change no
\* stored document and no later step, a connect of the receiver included,
\* sends them.
C29_TypingEphemeral ==
    [][TypingForwardOrDrop /\ NoTypingQueued]_vars

\* A typing event for B arrived while B had no connection and nothing was
\* sent for it; B has connected again since.
C29_Witness ==
    /\ \E t \in DOMAIN typings :
           /\ typings[t].receiverId = "B"
           /\ \A e \in BagToSet(emits) : ~(e.src = "typing" /\ e.job = t)
    /\ sockets[2].state = "closed"
    /\ activeUsers["B"] # NoEntry

(***************************************************************************)
(* Who manages a group.  A creates group G and may delete it; every user   *)
(* asks to add members, to remove a member and to rename the group, with   *)
(* up to MaxGroupJobs requests in all.                                     *)
(***************************************************************************)
MaxGroupJobs == 2

NextManage ==
    \/ \E ids \in MemberLists : GroupCreate("A", "G", ids)
    \/ \E u \in Users : GroupDelete(u, "G")
    \/ \E op \in {"add", "remove", "settings"}, u \in Users,
          ids \in MemberLists \cup {<<>>}, m \in Users :
           GroupRequest(op, u, "G", ids, m, Padded, MaxGroupJobs)

SpecManage == InitCall /\ [][NextManage]_vars

\* The user is the creator or an admin of the group, and the group is
\* active.
CreatorOrAdmin(u, g) ==
    /\ groups[g].exists
    /\ groups[g].isActive
    /\ \/ u = groups[g].createdBy
       \/ \E i \in DOMAIN groups[g].admins : groups[g].admins[i] = u

\* A request to one of the three routes is served in this step.
GroupRequestServed == Len(groupJobs') = Len(groupJobs) + 1

\* C30: a request to add members, to remove a member or to update the
\* settings of a group succeeds only when the requester is the group's
\* creator or one of its admins and the group is active; any other request
\* is rejected, leaves the members, admins and settings of the group as
\* they were and creates no system message.
C30_GroupAuthorization ==
    [][GroupRequestServed =>
           LET r == groupJobs'[Len(groupJobs')]
           IN  \/ CreatorOrAdmin(r.user, r.group)
               \/ /\ r.status \in {400, 404}
                  /\ groups' = groups
                  /\ messages' = messages]_vars

\* B, a member of G but no admin, was refused and A, the creator, was not.
C30_Witness ==
    /\ \E r \in DOMAIN groupJobs :
           /\ groupJobs[r].user = "B"
           /\ groupJobs[r].status = 404
           /\ InSeq("B", groups["G"].members)
    /\ \E r \in DOMAIN groupJobs :
           /\ groupJobs[r].user = "A"
           /\ groupJobs[r].status = 200

(***************************************************************************)
(* Membership changes and their system message, under SpecMembers: A, B    *)
(* and C are connected while the group's members are added, removed and    *)
(* leave.                                                                  *)
(***************************************************************************)
\* This step records a membership change of group g: one system message of
\* the group is appended to the collection.
MembershipRecorded(g) ==
    /\ Len(messages') = Len(messages) + 1
    /\ messages'[Len(messages')].group = g
    /\ messages'[Len(messages')].messageType = "system"

\* How often new-message was emitted to the socket s
NewMessagesOn(bag, s) ==
    LET hits == {e \in BagToSet(bag) : e.ev = "new-message" /\ e.to = s}
        RECURSIVE Sum(_)
        Sum(S) == IF S = {} THEN 0
                  ELSE LET e == CHOOSE x \in S : TRUE
                       IN  CopiesIn(e, bag) + Sum(S \ {e})
    IN  Sum(hits)

\* How often a notification was handed to the dispatcher for the user u
NotificationsFor(bag, u) ==
    LET hits == {p \in BagToSet(bag) : p.user = u}
        RECURSIVE Sum(_)
        Sum(S) == IF S = {} THEN 0
                  ELSE LET p == CHOOSE x \in S : TRUE
                       IN  CopiesIn(p, bag) + Sum(S \ {p})
    IN  Sum(hits)

\* C31: every successful add-members, remove-member and leave creates exactly
\* one system message of the group, makes it the group's last message, and
\* fans it out like a group message: new-message to every member with a
\* presence entry, a notification for every other member but the actor.
C31_SystemMessageFanout ==
    [][\A g \in Groups :
          /\ groups[g].exists /\ groups'[g].members # groups[g].members
                 => MembershipRecorded(g)
          /\ MembershipRecorded(g) =>
                 /\ groups'[g].lastMessage = Len(messages')
                 /\ messages'[Len(messages')].sender # NoUser
                 /\ \A i \in DOMAIN groups'[g].members :
                        LET u == groups'[g].members[i]
                        IN  IF activeUsers[u] # NoEntry
                            THEN NewMessagesOn(emits', activeUsers[u].socketId)
                                     = NewMessagesOn(emits, activeUsers[u].socketId) + 1
                            ELSE u # messages'[Len(messages')].sender
                                     => NotificationsFor(pushes', u)
                                            = NotificationsFor(pushes, u) + 1]_vars

(***************************************************************************)
(* Who may add a message to a group, under SpecStore: the socket handler   *)
(* and POST /messages/send both write group messages while A creates the   *)
(* group and changes its member list.                                      *)
(***************************************************************************)
\* u is on the member list of the active group g.
MemberOfActive(u, g) ==
    /\ g \in Groups
    /\ groups[g].exists
    /\ groups[g].isActive
    /\ \E i \in DOMAIN groups[g].members : groups[g].members[i] = u

\* The socket handler's membership check of this step finds no group: the
\* originator gets message-error and nothing else happens.
GroupCheckRefuses ==
    \A j \in DOMAIN sends :
        (/\ sends[j].pc = "group"
         /\ sends'[j].pc # "group"
         /\ ~MemberOfActive(sends[j].user, sends[j].receiverId)) =>
                /\ sends'[j].pc = "done"
                /\ sends'[j].msg = NoMessage
                /\ emits' = emits (+) SetToBag({SendError(j,
                                "Group not found or you are not a member")})
                /\ UNCHANGED <<messages, groups, pushes>>

\* The handler whose membership check passed writes the message of this
\* step.
WrittenByCheckedSend ==
    \E j \in DOMAIN sends :
        /\ sends[j].pc = "groupSave"
        /\ sends'[j].msg = Len(messages')

\* C32: a message is added to a group only for a sender who is a member of
\* the active group: a send whose membership check fails ends with
\* message-error, no message, no last-message update and no fanout, and
\* every group message that is not a membership record is written either by
\* a handler that passed the check or for a sender on the member list of the
\* active group.
C32_GroupSendAuthorization ==
    [][/\ GroupCheckRefuses
       /\ DoneStaysDone
       /\ (/\ Len(messages') = Len(messages) + 1
           /\ messages'[Len(messages')].group # NoGroup
           /\ messages'[Len(messages')].messageType # "system") =>
                \/ WrittenByCheckedSend
                \/ MemberOfActive(messages'[Len(messages')].sender,
                                  messages'[Len(messages')].group)]_vars

(***************************************************************************)
(* Read status.  A and B are connected and friends, and B has reported     *)
(* once whether it views the thread with A.  A sends direct messages to B; *)
(* B reports viewing or not viewing the thread with A or with C, either of *)
(* the two emits mark-message-read, B asks the read-marking routes, and B  *)
(* may lose its connection and connect again: MaxReadJobs events and       *)
(* connections in all, the first two connections and B's first report      *)
(* included.                                                               *)
(***************************************************************************)
MaxReadJobs == 5

\* The state after B's first user-viewing-chat for the thread with A, with
\* isViewing true or false, was handled with no message stored yet.
InitRead ==
    /\ sockets = <<[state |-> "connected", token |-> Jwt("ok", "A"), userId |-> "A"],
                   [state |-> "connected", token |-> Jwt("ok", "B"), userId |-> "B"]>>
    /\ users = [u \in Users |->
                   [NoUserDoc EXCEPT !.friends =
                       IF u = "A" THEN {"B"} ELSE IF u = "B" THEN {"A"} ELSE {}]]
    /\ messages = <<>>
    /\ chatRooms = <<>>
    /\ groups = [g \in Groups |-> NoGroupDoc]
    /\ sends = <<>>
    /\ deletes = <<>>
    /\ reacts = <<>>
    /\ calls = <<>>
    /\ callJobs = <<>>
    /\ typings = <<>>
    /\ groupJobs = <<>>
    /\ reads = <<>>
    /\ pushes = EmptyBag
    /\ views = <<[conn |-> 2, user |-> "B", chatUserId |-> "A", pc |-> "done",
                  count |-> 0]>>
    /\ \E isViewing \in BOOLEAN :
           /\ activeUsers = [u \in Users |->
                  IF u = "A" THEN Entry(1)
                  ELSE IF u = "B"
                       THEN [Entry(2) EXCEPT !.viewingChat =
                                IF isViewing THEN "A" ELSE "null"]
                       ELSE NoEntry]
           /\ emits = IF isViewing
                      THEN Emit("user-viewing-status", 2, 1, "view", 1, "true")
                      ELSE Emit("user-viewing-status", 2, Broadcast, "view", 1, "false")
    /\ seen = SeenAtRest

\* What is left for one kind of event, own being the number of events of
\* that kind received so far
ReadBudget(own) ==
    MaxReadJobs - (Len(sockets) + Len(sends) + Len(views) + Len(reads)) + own

NextRead ==
    \/ SendStart(1, "B", Hi, FALSE, "text", FALSE, ReadBudget(Len(sends)))
    \/ \E j \in DOMAIN sends : SendReadSender(j)
    \/ \E j \in DOMAIN sends : SendBlockCheck(j)
    \/ \E j \in DOMAIN sends : SendFriendsCheck(j)
    \/ \E j \in DOMAIN sends : SendSave(j)
    \/ \E j \in DOMAIN sends : SendLookup(j)
    \/ \E j \in DOMAIN sends : SendRoomFind(j)
    \/ \E j \in DOMAIN sends : SendRoomSave(j)
    \/ \E c \in DOMAIN sockets, u \in {"A", "C"}, b \in BOOLEAN :
           sockets[c].userId = "B" /\ ViewStart(c, u, b, ReadBudget(Len(views)))
    \/ \E v \in DOMAIN views : ViewMark(v)
    \/ \E c \in DOMAIN sockets, m \in {NoMessage, 1}, u \in {"A", "B"} :
           MarkMessageRead(c, m, u, ReadBudget(Len(reads)))
    \/ \E r \in DOMAIN reads : ReadUpdate(r)
    \/ RestMarkRead("B", "A")
    \/ Handshake(Jwt("ok", "B"), ReadBudget(Len(sockets)))
    \/ \E c \in DOMAIN sockets : Connection(c)
    \/ Disconnect(activeUsers["B"].socketId)

SpecRead == InitRead /\ [][NextRead]_vars

\* The receiver of the send has a presence entry whose viewing field names
\* the sender.
ViewingSender(j) ==
    \E e \in {activeUsers[sends[j].receiverId]} :
        /\ e.socketId # NoSocket
        /\ e.viewingChat = sends[j].user

\* The steps of a send-message handler and the read flag of its message:
\* the save stores it unread, the registry lookup marks it read exactly
\* when the receiver's entry names the sender and otherwise leaves the flag
\* alone, and no later step of the handler touches it.
ReadDecidedAtLookup ==
    \A j \in DOMAIN sends :
        /\ (sends[j].pc = "save" /\ sends'[j].msg # NoMessage) =>
               ~messages'[sends'[j].msg].isRead
        /\ (sends[j].pc = "lookup" /\ sends'[j].pc # "lookup") =>
               /\ ViewingSender(j) => messages'[sends[j].msg].isRead
               /\ ~ViewingSender(j) =>
                      messages'[sends[j].msg].isRead = messages[sends[j].msg].isRead
        /\ (sends[j].pc \in {"room", "roomSave"} /\ sends'[j] # sends[j]) =>
               messages' = messages

\* C33: a direct message is stored unread and the handler's registry
\* lookup sets its read flag if and only if the receiver has a presence
\* entry whose viewing field names the sender; for a receiver that is
\* offline, on a new connection that has reported no viewing yet, or viewing
\* another thread, the handler leaves the message unread.
C33_ReadOnSend == [][ReadDecidedAtLookup]_vars

\* B was viewing the thread with A and was superseded onto a third
\* connection that has reported nothing; the message A sent is stored and
\* announced, and it is unread.
C33_Witness ==
    /\ EmitCount("user-viewing-status", 2, 1, "view", 1, "true") = 1
    /\ activeUsers["B"] = Entry(3)
    /\ \E j \in DOMAIN sends :
           /\ sends[j].pc = "done"
           /\ sends[j].msg # NoMessage
           /\ sends[j].receiverSocket = 3
           /\ ~messages[sends[j].msg].isRead

\* The events this step adds to the emitted ones
NewEmits == {e \in BagToSet(emits') : CopiesIn(e, emits') > CopiesIn(e, emits)}

\* The user-viewing-chat event of this step, as the handler stored it
ViewReported == Len(views') = Len(views) + 1

\* The report of this step names a counterpart as being viewed.
ReportsViewing == ViewReported /\ views'[Len(views')].pc = "mark"

\* The socket of the counterpart of a report, NoSocket without an entry or
\* without a counterpart
CounterpartSocket(chatUserId) ==
    IF chatUserId \in Users THEN activeUsers[chatUserId].socketId ELSE NoSocket

\* C34: a report of viewing puts the counterpart in the reporter's presence
\* entry and tells the counterpart alone, if present; the bulk update that
\* follows makes every unread message from the counterpart to the reporter
\* read and sends the counterpart messages-marked-read with the number
\* updated exactly when that number is above zero.  A report of not viewing
\* sets the viewing field to null and tells nobody but the counterpart.
C34_ViewingChat ==
    [][/\ ViewReported =>
              LET job == views'[Len(views')]
                  to == CounterpartSocket(job.chatUserId)
              IN  /\ activeUsers'[job.user].viewingChat =
                         (IF ReportsViewing THEN job.chatUserId ELSE "null")
                  /\ \A e \in NewEmits :
                         e.ev = "user-viewing-status" /\ e.to = to /\ to # NoSocket
                  /\ to # NoSocket => NewEmits # {}
                  /\ messages' = messages
       /\ \A v \in DOMAIN views :
              (views[v].pc = "mark" /\ views'[v].pc = "done") =>
                  LET ids == {m \in DOMAIN messages :
                                 /\ messages[m].sender = views[v].chatUserId
                                 /\ messages[m].receiver = views[v].user
                                 /\ ~messages[m].isRead}
                      to == CounterpartSocket(views[v].chatUserId)
                  IN  /\ \A m \in DOMAIN messages :
                             messages'[m] = IF m \in ids
                                            THEN [messages[m] EXCEPT !.isRead = TRUE]
                                            ELSE messages[m]
                      /\ NewEmits =
                             IF ids = {} \/ to = NoSocket THEN {}
                             ELSE {[ev |-> "messages-marked-read", by |-> views[v].conn,
                                    to |-> to, src |-> "view", job |-> v,
                                    info |-> ToString(Cardinality(ids))]}]_vars

\* The update of a mark-message-read handler resolves in this step, and the
\* event came from the receiver of the direct message it names.
ReceiverMarksRead(r) ==
    /\ reads[r].pc = "update"
    /\ reads'[r].pc = "done"
    /\ reads[r].messageId \in DOMAIN messages
    /\ messages[reads[r].messageId].receiver = reads[r].user

\* C35: when the receiver of message m marks it read, m's read flag is set,
\* one read receipt goes to the connection of m's sender if the sender has a
\* presence entry, nobody else is sent anything and no notification is
\* queued.
C35_ReadReceipt ==
    [][\A r \in DOMAIN reads :
          ReceiverMarksRead(r) =>
              LET m == reads[r].messageId
                  to == activeUsers[messages[m].sender].socketId
              IN  /\ messages'[m].isRead
                  /\ \A e \in NewEmits :
                         /\ e.ev \in {"message-read", "messages-marked-read"}
                         /\ e.to = to
                         /\ CopiesIn(e, emits') = CopiesIn(e, emits) + 1
                  /\ Cardinality(NewEmits) = (IF to = NoSocket THEN 0 ELSE 1)
                  /\ pushes' = pushes]_vars

\* The connection c closes in this step.
Closes(c) == sockets[c].state = "connected" /\ sockets'[c].state = "closed"

\* Every close, by the transport or by a newer connection of the same user,
\* takes the connection's entry out of the registry and broadcasts one
\* user-offline in its name; a closed connection stays closed.
ClosedOnce ==
    \A c \in DOMAIN sockets :
        /\ Closes(c) =>
               /\ activeUsers'[sockets[c].userId].socketId # c
               /\ \E e \in NewEmits :
                      /\ e.ev = "user-offline" /\ e.by = c /\ e.to = Broadcast
                      /\ CopiesIn(e, emits') = CopiesIn(e, emits) + 1
                      /\ \A f \in NewEmits : f.ev = "user-offline" => f = e
        /\ sockets[c].state = "closed" =>
               /\ sockets'[c] = sockets[c]
               /\ \A e \in NewEmits : e.by # c \/ e.ev # "user-offline"

\* The handler invocations of the three kinds of event that are advanced in
\* this step by a connection that is closed
RunsAfterClose ==
    \/ \E j \in DOMAIN sends : sends'[j] # sends[j] /\ sockets[sends[j].conn].state = "closed"
    \/ \E v \in DOMAIN views : views'[v] # views[v] /\ sockets[views[v].conn].state = "closed"
    \/ \E r \in DOMAIN reads : reads'[r] # reads[r] /\ sockets[reads[r].conn].state = "closed"

\* C36: a connection that closes is unregistered once and announced offline
\* once, never becomes connected again, and from then on none of its
\* handlers changes a stored document, emits an event or queues a
\* notification.
C36_ClosedIsTerminal ==
    [][/\ ClosedOnce
       /\ RunsAfterClose => UNCHANGED <<storeVars, outVars>>]_vars

(***************************************************************************)
(* Concurrent requests on one group.  A has created group G with member B; *)
(* A asks to add C, to remove B or C and to rename the group, B asks to    *)
(* leave and sends a message to the group, and the requests are served     *)
(* concurrently: MaxSerialJobs requests and messages in all.  A stays     *)
(* connected, so the notification loop of the send has C at most.          *)
(***************************************************************************)
MaxSerialJobs == 2

\* Group G as POST /groups/create by A with member B leaves it
FirstGroup ==
    [exists |-> TRUE, createdBy |-> "A", admins |-> <<"A">>, members |-> <<"A", "B">>,
     isActive |-> TRUE, lastMessage |-> NoMessage, name |-> Trim(Hi), v |-> 0]

InitSerial ==
    /\ sockets = <<[state |-> "connected", token |-> Jwt("ok", "A"), userId |-> "A"],
                   [state |-> "connected", token |-> Jwt("ok", "B"), userId |-> "B"]>>
    /\ activeUsers = [u \in Users |->
                        IF u = "A" THEN Entry(1) ELSE IF u = "B" THEN Entry(2) ELSE NoEntry]
    /\ users = [u \in Users |-> NoUserDoc]
    /\ messages = <<>>
    /\ chatRooms = <<>>
    /\ groups = [g \in Groups |-> FirstGroup]
    /\ views = <<>>
    /\ sends = <<>>
    /\ deletes = <<>>
    /\ reacts = <<>>
    /\ calls = <<>>
    /\ callJobs = <<>>
    /\ typings = <<>>
    /\ groupJobs = <<>>
    /\ reads = <<>>
    /\ emits = EmptyBag
    /\ pushes = EmptyBag
    /\ seen = SeenAtRest

\* The requests: operation, requester, member ids to add, member to remove
SerialRequests ==
    {<<"add", "A", <<"C">>, NoUser>>, <<"add", "B", <<"C">>, NoUser>>,
     <<"remove", "A", <<>>, "B">>, <<"remove", "A", <<>>, "C">>,
     <<"leave", "B", <<>>, NoUser>>, <<"settings", "A", <<>>, NoUser>>}

NextSerial ==
    \/ \E q \in SerialRequests :
           GroupRouteStart(q[1], q[2], "G", q[3], q[4], MaxSerialJobs - Len(sends))
    \/ \E j \in DOMAIN groupJobs : GroupRouteFind(j)
    \/ \E j \in DOMAIN groupJobs : GroupRouteSave(j)
    \/ \E j \in DOMAIN groupJobs : GroupRouteMessage(j)
    \/ \E j \in DOMAIN groupJobs : GroupRouteLast(j)
    \/ SendStart(2, "G", Hi, FALSE, "text", TRUE, MaxSerialJobs - Len(groupJobs))
    \/ \E j \in DOMAIN sends : SendGroupFind(j)
    \/ \E j \in DOMAIN sends : SendGroupSave(j)
    \/ \E j \in DOMAIN sends : SendGroupFanout(j)

SpecSerial == InitSerial /\ [][NextSerial]_vars

\* What one request does to a group document when it is served alone
ServedAlone(doc, job) ==
    LET manages == doc.isActive /\ (job.user = doc.createdBy \/ InSeq(job.user, doc.admins))
        new == SelectSeq(job.memberIds,
                         LAMBDA m : m \in Users /\ ~InSeq(m, doc.members))
    IN  CASE job.op = "add" /\ manages ->
                 [doc EXCEPT !.members = @ \o new]
          [] job.op = "remove" /\ manages /\ InSeq(job.memberId, doc.members) ->
                 [doc EXCEPT !.members = Without(@, job.memberId),
                             !.admins = Without(@, job.memberId)]
          [] job.op = "leave" /\ doc.isActive /\ InSeq(job.user, doc.members)
                 /\ job.user # doc.createdBy ->
                 [doc EXCEPT !.members = Without(@, job.user),
                             !.admins = Without(@, job.user)]
          [] OTHER -> doc

\* The documents that serving the requests of J one after the other, in
\* any order, leads to
RECURSIVE InSomeOrder(_, _)
InSomeOrder(doc, J) ==
    IF J = {} THEN {doc}
    ELSE UNION {InSomeOrder(ServedAlone(doc, groupJobs[j]), J \ {j}) : j \in J}

\* C37: when every request on a group has been answered, its member list
\* and its admin list are what serving the successful requests one after
\* the other, in some order, leads to: no added member is lost, no removed
\* member is back, and none is on the list more often.
C37_GroupSerialized ==
    (\A j \in DOMAIN groupJobs : groupJobs[j].pc = "done") =>
        \E doc \in InSomeOrder(FirstGroup,
                               {j \in DOMAIN groupJobs : groupJobs[j].status = 200}) :
            /\ doc.members = groups["G"].members
            /\ doc.admins = groups["G"].admins

(***************************************************************************)
(* What the connections are told about presence, under SpecPresence.       *)
(***************************************************************************)
\* The users other than the connection's own
Others(view, o) == view \ {sockets[o].userId}

\* Every connection's picture of who is online, built from the snapshot it
\* got and the broadcasts it got since, is the registry's.
ViewsMatchRegistry ==
    \A o \in DOMAIN sockets :
        Connected(o) => Others(seen[o], o) = Others(OnlineUsers(activeUsers), o)

\* The connection c takes the place of an older connection of its user in
\* this step.
Supersedes(c) ==
    /\ sockets[c].state = "connecting"
    /\ sockets'[c].state = "connected"
    /\ \E old \in DOMAIN sockets :
           /\ old # c
           /\ Closes(old)
           /\ sockets[old].userId = sockets'[c].userId

\* C38: whenever no connect or disconnect is being handled, the users a
\* live connection takes to be online, from the online-users snapshot it
\* received and the user-online and user-offline broadcasts it received
\* since, in order, are the users of the presence registry, its own user
\* aside; after a supersede every other connection takes the superseded
\* user to be online.
C38_PresenceView ==
    /\ []ViewsMatchRegistry
    /\ [][\A c \in DOMAIN sockets :
              Supersedes(c) =>
                  \A o \in DOMAIN sockets :
                      (o # c /\ sockets'[o].state = "connected") =>
                          sockets'[c].userId \in seen'[o]]_vars

\* B's connection was open while A's first connection was superseded by
\* A's second one, and B's connection is still open.
C38_Witness ==
    \E old, o, c \in DOMAIN sockets :
        /\ sockets[old].state = "closed"
        /\ Connected(o) /\ Connected(c)
        /\ o < c
        /\ sockets[old].userId = sockets[c].userId
        /\ sockets[o].userId # sockets[c].userId
        /\ EmitCount("user-offline", old, Broadcast, "conn", old,
                     "server namespace disconnect") = 1
        /\ sockets[c].userId \in seen[o]

\* C39: a direct message that is read stays read, whatever the order in
\* which the steps of send-message, mark-message-read, user-viewing-chat and
\* the read-marking routes are taken; the second save of the sender's
\* handler does not set a message back to unread that a read marking has
\* reached in between.
C39_ReadMonotonic ==
    [][\A m \in DOMAIN messages : messages[m].isRead => messages'[m].isRead]_vars

\* A's handler has stored its message and not yet looked up B, B is not
\* viewing the thread with A, and a read marking has reached the message.
C39_Witness ==
    \E j \in DOMAIN sends :
        /\ sends[j].pc = "lookup"
        /\ messages[sends[j].msg].isRead
        /\ activeUsers["B"] # NoEntry
        /\ activeUsers["B"].viewingChat # "A"

(***************************************************************************)
(* The fanouts side by side.  A, B and C are connected; the store holds a  *)
(* direct message of A to B and a message of A to group G, whose members   *)
(* are A and B.  Any of the three reacts to or deletes either message, A   *)
(* sends to B and to G, and A removes B from G, with up to MaxFanoutJobs   *)
(* handlers in flight.  Nobody disconnects, so the notification loop of    *)
(* the group send never has a second member to notify.                     *)
(***************************************************************************)
MaxFanoutJobs == 2

InitFanout ==
    /\ sockets = <<[state |-> "connected", token |-> Jwt("ok", "A"), userId |-> "A"],
                   [state |-> "connected", token |-> Jwt("ok", "B"), userId |-> "B"],
                   [state |-> "connected", token |-> Jwt("ok", "C"), userId |-> "C"]>>
    /\ activeUsers = [u \in Users |->
                        IF u = "A" THEN Entry(1) ELSE IF u = "B" THEN Entry(2) ELSE Entry(3)]
    /\ users = [u \in Users |->
                   [NoUserDoc EXCEPT !.friends =
                       IF u = "A" THEN {"B"} ELSE IF u = "B" THEN {"A"} ELSE {}]]
    /\ messages = <<NewMessage("A", "B", NoGroup, Hi, "text"),
                    NewMessage("A", NoUser, "G", Hi, "text")>>
    /\ chatRooms = <<NewRoom("A", "B", 1)>>
    /\ groups = [g \in Groups |-> [FirstGroup EXCEPT !.lastMessage = 2]]
    /\ views = <<>>
    /\ sends = <<>>
    /\ deletes = <<>>
    /\ reacts = <<>>
    /\ calls = <<>>
    /\ callJobs = <<>>
    /\ typings = <<>>
    /\ groupJobs = <<>>
    /\ reads = <<>>
    /\ emits = EmptyBag
    /\ pushes = EmptyBag
    /\ seen = SeenAtRest

\* What is left of MaxFanoutJobs for one kind of handler, which has own
\* jobs already
FanoutBudget(own) == MaxFanoutJobs - (Len(sends) + Len(deletes) + Len(reacts)) + own

NextFanout ==
    \/ \E g \in BOOLEAN :
           SendStart(1, IF g THEN "G" ELSE "B", Hi, FALSE, "text", g,
                     FanoutBudget(Len(sends)))
    \/ \E j \in DOMAIN sends : SendReadSender(j)
    \/ \E j \in DOMAIN sends : SendBlockCheck(j)
    \/ \E j \in DOMAIN sends : SendFriendsCheck(j)
    \/ \E j \in DOMAIN sends : SendSave(j)
    \/ \E j \in DOMAIN sends : SendLookup(j)
    \/ \E j \in DOMAIN sends : SendRoomFind(j)
    \/ \E j \in DOMAIN sends : SendRoomSave(j)
    \/ \E j \in DOMAIN sends : SendGroupFind(j)
    \/ \E j \in DOMAIN sends : SendGroupSave(j)
    \/ \E j \in DOMAIN sends : SendGroupFanout(j)
    \/ \E c \in DOMAIN sockets, m \in {1, 2} :
           DeleteStart(c, m, FanoutBudget(Len(deletes)))
    \/ \E d \in DOMAIN deletes : DeleteFindById(d)
    \/ \E d \in DOMAIN deletes : DeleteFindOne(d)
    \/ \E d \in DOMAIN deletes : DeleteSave(d)
    \/ \E d \in DOMAIN deletes : DeleteEmit(d)
    \/ \E d \in DOMAIN deletes : DeleteGroupFanout(d)
    \/ \E c \in DOMAIN sockets, m \in {1, 2}, op \in {"add", "remove"} :
           ReactStart(c, op, m, IF op = "add" THEN Thumb ELSE NoReaction,
                      FanoutBudget(Len(reacts)))
    \/ \E r \in DOMAIN reacts : ReactFind(r)
    \/ \E r \in DOMAIN reacts : ReactSave(r)
    \/ \E r \in DOMAIN reacts : ReactEmit(r)
    \/ \E r \in DOMAIN reacts : ReactGroupFanout(r)
    \/ GroupRemoveMember("A", "G", "B")

SpecFanout == InitFanout /\ [][NextFanout]_vars

MessageEvents == {"new-message", "message-deleted", "reaction-added", "reaction-removed"}

PeerCallEvents ==
    {"incoming-call", "call-answered", "call-declined", "call-ended", "call-offer",
     "call-answer-webrtc", "ice-candidate"}

\* The user may see the message as the store has it after the step: the
\* sender or the receiver of a direct message, a member of the group of a
\* group message.
MaySee(u, m) ==
    IF m.group # NoGroup
    THEN m.group \in Groups /\ InSeq(u, groups'[m.group].members)
    ELSE u \in {m.sender, m.receiver}

\* The message or the call an event of this step is about
Subject(e) ==
    IF e.src = "send" THEN messages'[sends'[e.job].msg]
    ELSE IF e.src = "delete" THEN messages'[deletes'[e.job].messageId]
    ELSE IF e.src = "react" THEN messages'[reacts'[e.job].messageId]
    ELSE calls'[callJobs'[e.job].callId]

\* C40: a new-message, message-deleted, reaction-added or reaction-removed
\* event of a socket handler goes only to connections of the sender and the
\* receiver of its direct message, or of users who are members of the group
\* of its group message when it is emitted, and an event of a call only to
\* connections of the caller and the receiver of the call.
C40_FanoutConfidentiality ==
    [][\A e \in NewEmits :
           e.to \in DOMAIN sockets =>
               LET u == sockets[e.to].userId
               IN  /\ (e.ev \in MessageEvents /\ e.src \in {"send", "delete", "react"})
                          => MaySee(u, Subject(e))
                   /\ (e.ev \in PeerCallEvents /\ e.src \in {"call", "signal"})
                          => u \in {Subject(e).caller, Subject(e).receiver}]_vars

====
